---- MODULE Spec2Model ----
(***************************************************************************)
(* AVRModPlay (namespace mod8): a Protracker MOD player.  The model covers *)
(* the hosted build (no ARDUINO_ARCH_AVR) with the default configuration   *)
(* of Config.hpp: mixing frequency 31250 Hz, no downsampling, no volume    *)
(* attenuation, extended period range, F00 does not stop playback.         *)
(*                                                                         *)
(* Two execution contexts exist: the foreground (load, update, stop,       *)
(* set_mode, Timer::set_period, ...) and the audio interrupt               *)
(* (Player::tick -> Sampler::fetch_sample, Timer::clock).  The interrupt   *)
(* is atomic; the foreground is a sequence of steps tracked by pc.         *)
(***************************************************************************)
EXTENDS Integers, Sequences, FiniteSets, TLC

VARIABLES
    timer,      \* Timer m_tick_timer
    sampler,    \* Sampler of each channel (Channel::m_sampler)
    channel,    \* Channel state of each channel, without its Sampler
    player,     \* Player: song info, song/row/pattern state, row actions, stats
    m_playing,  \* Player::m_playing
    out,        \* Player::m_output_left / m_output_right
    samples,    \* Player::m_samples
    song,       \* the caller-owned MOD file (m_song_data) and the size given to load()
    pc,         \* foreground: the step the foreground is at ("idle": in the host)
    pcop,       \* foreground: the API call in progress
    pci,        \* foreground: loop index of the step (channel number)
    arg,        \* foreground: argument of the Timer::set_period() call in progress
    ret,        \* what the last API call returned to the host
    h           \* observation only: counts kept beside the program state

tmVars == <<timer>>
spVars == <<sampler>>
plVars == <<channel, player, m_playing, out, samples, song>>
fgVars == <<pc, pcop, pci, arg>>
obVars == <<ret, h>>
vars == <<timer, sampler, channel, player, m_playing, out, samples, song,
          pc, pcop, pci, arg, ret, h>>

(***************************************************************************)
(* Integer helpers: fixed-width arithmetic of the C++ types.               *)
(***************************************************************************)
U8(x) == x % 256
U16(x) == x % 65536

(***************************************************************************)
(* Timer.hpp                                                               *)
(***************************************************************************)
\* Timer::reset(period)
TimerReset(period) ==
    [counter |-> period, period |-> period, new_period |-> period,
     load_new_period |-> FALSE, fire_counter |-> 0, fire_counter_last |-> 0]

\* A mutation of Timer::clock: the staged period is installed in m_period only,
\* the running count is left alone.
TimerClockKeepsCount(t) ==
    LET t1 == IF t.load_new_period
              THEN [t EXCEPT !.period = t.new_period, !.load_new_period = FALSE]
              ELSE t
        c == U16(t1.counter - 1)
    IN  IF c = 0
        THEN [t1 EXCEPT !.counter = t1.period,
                        !.fire_counter = U8(t1.fire_counter + 1)]
        ELSE [t1 EXCEPT !.counter = c]

\* A mutation of Timer::clock: the staged period is loaded after the count
\* instead of before it.
TimerClockLoadsLate(t) ==
    LET c == U16(t.counter - 1)
        t1 == IF c = 0
              THEN [t EXCEPT !.counter = t.period,
                             !.fire_counter = U8(t.fire_counter + 1)]
              ELSE [t EXCEPT !.counter = c]
    IN  IF t.load_new_period
        THEN [t1 EXCEPT !.period = t.new_period, !.counter = t.new_period,
                        !.load_new_period = FALSE]
        ELSE t1

\* Timer::clock(), called from the interrupt
TimerClock(t) ==
    LET t1 == IF t.load_new_period
              THEN [t EXCEPT !.period = t.new_period, !.counter = t.new_period,
                             !.load_new_period = FALSE]
              ELSE t
        c == U16(t1.counter - 1)
    IN  IF c = 0
        THEN [t1 EXCEPT !.counter = t1.period,
                        !.fire_counter = U8(t1.fire_counter + 1)]
        ELSE [t1 EXCEPT !.counter = c]

\* Timer::is_fired(): the value returned
TimerIsFired(t) == t.fire_counter # t.fire_counter_last

\* Timer::is_fired(): the timer afterwards
TimerAfterIsFired(t) == [t EXCEPT !.fire_counter_last = t.fire_counter]

\* Timer::get_period()
TimerGetPeriod(t) == t.new_period

\* Timer::set_period(): the body after the wait loop, in program order
TimerStage(t, p) == [t EXCEPT !.new_period = p]
TimerFlag(t) == [t EXCEPT !.load_new_period = TRUE]

(***************************************************************************)
(* Config.hpp, Format.hpp, Math.hpp                                        *)
(***************************************************************************)
MIXING_FREQ == 31250
DOWNSAMPLING_FACTOR == 1
AMIGA_PAULA_CLOCK_FREQ == 3546894
AMIGA_VBLANK_INT_FREQ == 50
SAMPLING_FREQ == MIXING_FREQ \div DOWNSAMPLING_FACTOR
SAMPLES_PER_AMIGA_VBLANK == SAMPLING_FREQ \div AMIGA_VBLANK_INT_FREQ

NUM_ORDERS == 128
NUM_CHANNELS == 4
NUM_ROWS == 64
NUM_SAMPLES == 31
MAX_VOLUME == 64
MAX_FINETUNE == 15
MAX_TICKS_PER_ROW == 31
MIN_PERIOD == 28 * DOWNSAMPLING_FACTOR
MAX_PERIOD == 3424
INITIAL_BPM == 125
INITIAL_SPEED == 6
ARPEGGIO_PERIOD == 3

\* math::u8_to_s8
u8_to_s8(value) == IF value >= 128 THEN value - 256 ELSE value
\* math::hi_nibble, math::lo_nibble, math::make_word
hi_nibble(value) == (value % 256) \div 16
lo_nibble(value) == value % 16
\* math::clamp, as written: a value below min is returned unchanged
clamp(value, min, max) ==
    IF value < min THEN value ELSE (IF value > max THEN max ELSE value)
\* math::maximum
maximum(value1, value2) == IF value1 > value2 THEN value1 ELSE value2

(***************************************************************************)
(* Sampler.hpp: the speed table                                            *)
(***************************************************************************)
\* math::make_fixp_fraction<uint32_t, 14>(AMIGA_PAULA_CLOCK_FREQ, SAMPLING_FREQ)
PLAYER_SPEED_CONSTANT ==
    (AMIGA_PAULA_CLOCK_FREQ \div SAMPLING_FREQ) * 16384
    + ((AMIGA_PAULA_CLOCK_FREQ % SAMPLING_FREQ) * 16384) \div SAMPLING_FREQ

\* internal::calc_speed: PLAYER_SPEED_CONSTANT * make_fixp<uint16_t,14>(intgr, fract)
\* / 16384 in 64-bit arithmetic.  The product is split at 2^14 so that no
\* intermediate value leaves the 32-bit range; the quotient is the same.
calc_speed(intgr, fract) ==
    LET m == intgr * 16384 + fract
        q == PLAYER_SPEED_CONSTANT \div 16384
        r == PLAYER_SPEED_CONSTANT % 16384
    IN  q * m + (r * m) \div 16384

\* internal::SPEED_TABLE, indexed by finetune 0..15 (here 1..16)
SPEED_TABLE ==
    << calc_speed(1, 0), calc_speed(1, 118), calc_speed(1, 238), calc_speed(1, 358),
       calc_speed(1, 480), calc_speed(1, 602), calc_speed(1, 725), calc_speed(1, 849),
       calc_speed(0, 15464), calc_speed(0, 15576), calc_speed(0, 15689),
       calc_speed(0, 15803), calc_speed(0, 15917), calc_speed(0, 16032),
       calc_speed(0, 16149), calc_speed(0, 16266) >>

MAX_SPEED_INDEX == 7
MIN_SPEED_INDEX == 8
\* internal::MIN_LOOP_LENGTH
MIN_LOOP_LENGTH == U16((SPEED_TABLE[MAX_SPEED_INDEX + 1] \div MIN_PERIOD) \div 16384) + 1

(***************************************************************************)
(* Sampler.hpp: class Sampler (hosted branch: phase relative to the        *)
(* sample's first byte, fixed point X.16)                                  *)
(***************************************************************************)
\* A Sampler in static storage before init()
ZeroSampler ==
    [active |-> FALSE, sampling |-> FALSE, finetune |-> 0, volume |-> 0,
     cached_period |-> 0, cached_finetune |-> 0, loopless |-> FALSE,
     sample_base |-> 0, end |-> 0, loop_begin |-> 0, loop_end |-> 0,
     phase |-> 0, phase_increment |-> 0, sample |-> 0]

\* A mutation of Sampler::init: m_active is set instead of cleared.
SamplerInitArms(s) ==
    [s EXCEPT !.active = TRUE, !.sampling = FALSE, !.sample = 0,
              !.cached_period = 0, !.cached_finetune = 0]

\* Sampler::init
SamplerInit(s) ==
    [s EXCEPT !.active = FALSE, !.sampling = FALSE, !.sample = 0,
              !.cached_period = 0, !.cached_finetune = 0]

\* A mutation of Sampler::reset: m_active is not cleared before init().
SamplerStaysActive(s) == s

\* Sampler::reset, first statement: the bypass of fetch_sample()
SamplerDeactivate(s) == [s EXCEPT !.active = FALSE]

\* Sampler::reset as a whole; the wait on m_sampling ends at once because the
\* interrupt never leaves m_sampling set
SamplerReset(s) == SamplerInit(SamplerDeactivate(s))

\* Sampler::set_volume (VOLUME_ATTENNUATION_LOG2 = 0)
SamplerSetVolume(s, volume) == [s EXCEPT !.volume = volume]

\* Sampler::internal_set_period
SamplerInternalSetPeriod(s, period0) ==
    LET p1 == IF period0 < MIN_PERIOD THEN MIN_PERIOD ELSE period0
        period == IF p1 > MAX_PERIOD THEN MAX_PERIOD ELSE p1
        speed_constant == SPEED_TABLE[s.finetune + 1]
        speed == U16(speed_constant \div period)
    IN  IF period = s.cached_period /\ s.finetune = s.cached_finetune
        THEN s
        ELSE [s EXCEPT !.cached_period = period, !.cached_finetune = s.finetune,
                       !.phase_increment = speed * 4]

\* Sampler::set_period
SamplerSetPeriod(s, period) ==
    IF s.active THEN SamplerInternalSetPeriod(s, period) ELSE s

\* Sampler::retrig.  has_sample is FALSE for a null pointer.
SamplerRetrig(s, has_sample, smp, period, sample_offset, volume) ==
    LET s1 == SamplerSetVolume(SamplerReset(s), volume)
    IN  IF ~has_sample THEN s1
        ELSE IF smp.begin = smp.end THEN s1
        ELSE
          LET s2 == SamplerInternalSetPeriod([s1 EXCEPT !.finetune = smp.finetune], period)
              m_end == smp.end - smp.begin
              m_loop_begin == smp.loop_begin - smp.begin
              m_loop_end0 == smp.loop_end - smp.begin
              short == m_loop_end0 - m_loop_begin < MIN_LOOP_LENGTH
              m_loop_end == IF short THEN m_loop_begin + 1 ELSE m_loop_end0
              ph0 == sample_offset * 256
              m_phase == IF sample_offset # 0 /\ ph0 > m_end THEN m_end ELSE ph0
          IN  [s2 EXCEPT !.sample_base = smp.begin,
                         !.loopless = short,
                         !.phase = m_phase * 65536,
                         !.end = m_end * 65536,
                         !.loop_begin = m_loop_begin * 65536,
                         !.loop_end = m_loop_end * 65536,
                         !.active = TRUE]

\* The address Sampler::fetch_sample reads: m_sample_base + (m_phase >> 16)
SamplerReadAddr(s) == s.sample_base + (s.phase \div 65536)

\* A mutation of Sampler::fetch_sample: at the end of a looping sample the phase
\* is taken back by the whole sample length instead of by m_end - m_loop_begin.
SamplerFetchSampleRewinds(s, byte) ==
    IF ~s.active THEN s
    ELSE
      LET ph1 == s.phase + s.phase_increment
          wrap == ph1 >= s.end
          ph2 == IF ~wrap THEN ph1
                 ELSE IF ~s.loopless THEN ph1 - s.end
                 ELSE s.loop_begin
      IN  [s EXCEPT !.sample = s.volume * u8_to_s8(byte),
                    !.phase = ph2,
                    !.end = IF wrap THEN s.loop_end ELSE s.end,
                    !.sampling = FALSE]

\* Sampler::fetch_sample, called from the interrupt; byte is the song byte read
SamplerFetchSample(s, byte) ==
    IF ~s.active THEN s
    ELSE
      LET ph1 == s.phase + s.phase_increment
          wrap == ph1 >= s.end
          ph2 == IF ~wrap THEN ph1
                 ELSE IF ~s.loopless THEN ph1 - (s.end - s.loop_begin)
                 ELSE s.loop_begin
      IN  [s EXCEPT !.sample = s.volume * u8_to_s8(byte),
                    !.phase = ph2,
                    !.end = IF wrap THEN s.loop_end ELSE s.end,
                    !.sampling = FALSE]

\* Sampler::get_sample
SamplerGetSample(s) == s.sample


(***************************************************************************)
(* State in static storage, before init() and load()                       *)
(***************************************************************************)
Channels == 0 .. (NUM_CHANNELS - 1)

\* Channel (Channel.hpp) without its Sampler.  m_tick_state: ts_*, m_row_state:
\* rs_*, m_row_effects: re_*, m_state: st_*, m_input: in_*.  Action masks are
\* sets of action names; a Sample pointer is an index into m_samples, 0 = nullptr.
ZeroChannel ==
    [ts_actions |-> {}, ts_period |-> 0, ts_volume |-> 0,
     rs_tick_counter |-> 0, rs_delayed_actions |-> {},
     re_arpeggio_effect |-> "NONE", re_arpeggio_params |-> <<0, 0, 0>>,
     re_volume_effect |-> "NONE", re_volume_param |-> 0,
     re_period_effect |-> "NONE", re_period_param |-> 0,
     re_note_effect |-> "NONE", re_note_param |-> 0,
     st_sample |-> 0, st_period |-> 0, st_volume |-> 0,
     st_vibrato_pos |-> 0, st_tremolo_pos |-> 0,
     in_sample |-> 0, in_period |-> 0, in_portamento_slide |-> 0,
     in_vibrato_speed |-> 0, in_vibrato_depth |-> 0,
     in_tremolo_speed |-> 0, in_tremolo_depth |-> 0, in_sample_offset |-> 0]

\* Player::m_pattern_state[i]
ZeroPatternState == [loop_start_row |-> 0, loop_counter |-> 0]

\* Config.hpp: the option of the build that makes F00 stop the song; the
\* Player carries it as stop_on_f00
MOD8_OPTION_STOP_ON_F00_CMD == FALSE

\* Player: m_song_info (order_count, pattern_count), m_pattern_data (pattern),
\* m_song_state, m_pattern_state, m_row_state (tick, delay), m_row_actions, m_stats
ZeroPlayer ==
    [order_count |-> 0, pattern_count |-> 0, pattern |-> 0,
     mode |-> "PLAY_SONG_ONCE", loop_counter |-> 0, order |-> 0, row |-> 0,
     ticks_per_row |-> 0,
     pattern_state |-> [i \in Channels |-> ZeroPatternState],
     tick |-> 0, delay |-> 0,
     actions |-> {}, jump_to_order |-> 0, jump_to_row |-> 0,
     max_bpm |-> 0, playback_duration |-> 0,
     stop_on_f00 |-> MOD8_OPTION_STOP_ON_F00_CMD]

\* struct Sample (Sampler.hpp); the pointers are offsets into the song buffer
ZeroSample ==
    [begin |-> 0, end |-> 0, loop_begin |-> 0, loop_end |-> 0,
     finetune |-> 0, volume |-> 0]

\* No song: the buffer pointer before the first load()
NoSong ==
    [tag_ok |-> FALSE, size |-> 0, length |-> 0, orders |-> <<>>,
     headers |-> <<>>, cells |-> <<>>, pcm |-> <<>>]

NoRet == [op |-> "none", val |-> "none"]
NoHistory == [fires |-> 0, trues |-> 0, since |-> 0, last_set |-> 0, installed |-> FALSE]

\* Everything but the Timer, as left by the zero-initialisation of static storage
RestInit ==
    /\ sampler = [i \in Channels |-> ZeroSampler]
    /\ channel = [i \in Channels |-> ZeroChannel]
    /\ player = ZeroPlayer
    /\ m_playing = FALSE
    /\ out = [left |-> 0, right |-> 0]
    /\ samples = [i \in 1 .. NUM_SAMPLES |-> ZeroSample]
    /\ song = NoSong
    /\ pc = "idle" /\ pcop = "none" /\ pci = 0 /\ arg = 0
    /\ ret = NoRet

(***************************************************************************)
(* The Timer on its own: clock() from the interrupt, set_period() and      *)
(* is_fired() from the foreground.                                         *)
(***************************************************************************)
MaxTimerPeriod == 3
MaxFires == 3
TimerPeriods == 1 .. MaxTimerPeriod

\* After the first statement of Timer::set_period returns: back to the caller
SetPeriodReturn ==
    /\ pc' = "idle" /\ pcop' = "none"
    /\ UNCHANGED <<pci, arg>>

\* Timer::reset(p), foreground
TReset(p) ==
    /\ pc = "idle"
    /\ timer' = TimerReset(p)
    /\ h' = [NoHistory EXCEPT !.last_set = p]
    /\ ret' = NoRet
    /\ UNCHANGED <<spVars, plVars, fgVars>>

\* Timer::clock(), interrupt: may run between any two foreground steps
TClock ==
    /\ h.fires < MaxFires
    /\ timer' = TimerClock(timer)
    /\ LET fired == timer'.fire_counter # timer.fire_counter
           base == IF timer.load_new_period THEN 0 ELSE h.since
       IN  h' = [h EXCEPT !.fires = IF fired THEN @ + 1 ELSE @,
                          !.since = IF fired THEN 0 ELSE base + 1,
                          !.installed = @ \/ timer.load_new_period]
    /\ UNCHANGED <<spVars, plVars, fgVars, ret>>

\* Timer::is_fired(), foreground
TIsFired ==
    /\ pc = "idle"
    /\ ret' = [op |-> "is_fired", val |-> IF TimerIsFired(timer) THEN "TRUE" ELSE "FALSE"]
    /\ timer' = TimerAfterIsFired(timer)
    /\ h' = [h EXCEPT !.trues = IF TimerIsFired(timer) THEN @ + 1 ELSE @]
    /\ UNCHANGED <<spVars, plVars, fgVars>>

\* Timer::set_period(p) is entered
TSetPeriod(p) ==
    /\ pc = "idle"
    /\ pc' = "sp_wait" /\ pcop' = "set_period" /\ arg' = p
    /\ ret' = NoRet
    /\ UNCHANGED <<tmVars, spVars, plVars, pci, h>>

\* Timer::set_period: while (m_load_new_period) {} is left
SetPeriodWait ==
    /\ pc = "sp_wait"
    /\ ~timer.load_new_period
    /\ pc' = "sp_stage"
    /\ UNCHANGED <<tmVars, spVars, plVars, pcop, pci, arg, obVars>>

\* Timer::set_period: m_new_period = new_period
SetPeriodStage ==
    /\ pc = "sp_stage"
    /\ timer' = TimerStage(timer, arg)
    /\ pc' = "sp_flag"
    /\ h' = [h EXCEPT !.last_set = arg]
    /\ UNCHANGED <<spVars, plVars, pcop, pci, arg, ret>>

\* Timer::set_period: m_load_new_period = true, and the call returns
TSetPeriodFlag ==
    /\ pc = "sp_flag" /\ pcop = "set_period"
    /\ timer' = TimerFlag(timer)
    /\ SetPeriodReturn
    /\ UNCHANGED <<spVars, plVars, obVars>>

TimerInit ==
    /\ \E p \in TimerPeriods : timer = TimerReset(p) /\ h = [NoHistory EXCEPT !.last_set = p]
    /\ RestInit

TimerNext ==
    \/ \E p \in TimerPeriods : TReset(p)
    \/ TClock
    \/ TIsFired
    \/ \E p \in TimerPeriods : TSetPeriod(p)
    \/ SetPeriodWait
    \/ SetPeriodStage
    \/ TSetPeriodFlag

SpecTimer == TimerInit /\ [][TimerNext]_vars

\* C9: Timer::is_fired() returns true once per fire: it returns true exactly when
\* a fire counted by clock() has not been reported yet, so that no fire is lost
\* and none is reported twice, however clock() and is_fired() interleave.
C9_OncePerFire ==
    [][TIsFired => ((ret'.val = "TRUE") <=> (h.fires > h.trues))]_vars

\* C10: Timer period handshake.  (a) set_period() stages only while no staged
\* change is pending; (b) the clock() that finds a staged period installs it in
\* m_period and restarts the count from it in the same call and clears the flag;
\* (c) the installed value is the last one staged by set_period(); (d) a fire
\* comes exactly every m_period clock() calls, counted from the last fire or
\* from the installing call.
C10_StageWhenNonePending ==
    pc \in {"sp_stage", "sp_flag"} => ~timer.load_new_period
C10_CountTracksPeriod ==
    /\ h.since \in 0 .. (timer.period - 1)
    /\ timer.counter = timer.period - h.since
C10_Install ==
    (TClock /\ timer.load_new_period) =>
        /\ timer'.period = timer.new_period
        /\ timer'.period = h.last_set
        /\ ~timer'.load_new_period
C10_FireEveryPeriod ==
    TClock =>
        ((timer'.fire_counter # timer.fire_counter)
            <=> ((IF timer.load_new_period THEN 0 ELSE h.since) + 1 = timer'.period))
C10_PeriodHandshake ==
    /\ [](C10_StageWhenNonePending /\ C10_CountTracksPeriod)
    /\ [][C10_Install /\ C10_FireEveryPeriod]_vars

\* C10 witness: a second set_period() waits on a staged change, after an earlier
\* change was installed and the timer has fired under it.
C10_Witness ==
    /\ pc = "sp_wait" /\ timer.load_new_period
    /\ h.installed /\ h.fires >= 2 /\ timer.period # timer.new_period

(***************************************************************************)
(* The MOD file given to load(): format::Song header, patterns, sample     *)
(* data.  Addresses are offsets from the start of the buffer.              *)
(***************************************************************************)
SONG_HEADER_SIZE == 1084
PATTERN_SIZE == 1024
MAX_SONG_SIZE == 65535

\* format::Sample with the two bytes of each word joined by make_word
ZeroHeader ==
    [length |-> 0, finetune |-> 0, volume |-> 0, loop_start |-> 0, loop_length |-> 0]

\* m_song_data->samples[i - 1]
SongHeader(sg, i) == IF i <= Len(sg.headers) THEN sg.headers[i] ELSE ZeroHeader

\* m_song_data->orders[i]
SongOrder(sg, i) == IF i + 1 <= Len(sg.orders) THEN sg.orders[i + 1] ELSE 0

\* Player::load: m_song_info.pattern_count, the largest order entry plus one
SongPatternCount(sg) ==
    LET used == {sg.orders[k] : k \in 1 .. Len(sg.orders)} \cup {0}
    IN  (CHOOSE m \in used : \A x \in used : x <= m) + 1

\* Player::load: sample_data = patterns + pattern_count
SampleDataStart(sg) == SONG_HEADER_SIZE + PATTERN_SIZE * SongPatternCount(sg)

\* The four bytes fetch_row() reads for a channel at m_pattern_data + row: a
\* cell of the pattern, or, for a row past its 64 rows, of the patterns that
\* follow it in the file
SongCell(sg, pattern, row, ch) ==
    LET at == <<pattern + row \div NUM_ROWS, row % NUM_ROWS, ch>>
    IN  IF at \in DOMAIN sg.cells THEN sg.cells[at] ELSE <<0, 0, 0, 0>>

\* read_song_byte inside the buffer, in the sample data
SongByte(sg, addr) ==
    IF Len(sg.pcm) = 0 THEN 0
    ELSE sg.pcm[((addr - SampleDataStart(sg)) % Len(sg.pcm)) + 1]

\* What read_song_byte can return for an address outside the buffer
OutsideBytes == {0, 127, 128}

\* The bytes Sampler::fetch_sample can read at addr
ReadableBytes(sg, addr) ==
    IF addr >= 0 /\ addr < sg.size THEN {SongByte(sg, addr)} ELSE OutsideBytes

\* A mutation of the sample loop of Player::load: a sample of two bytes is kept.
LoadOneSampleTwoBytes(hd, sample_data, data_end) ==
    LET length == U16(hd.length * 2)
        sample_end == sample_data + length
        volume == u8_to_s8(clamp(hd.volume, 0, MAX_VOLUME))
    IN  IF length >= 2 /\ sample_end <= data_end
        THEN
          LET loop_start == U16(hd.loop_start * 2)
              loop_length == U16(hd.loop_length * 2)
              loop_begin == sample_data + loop_start
              loop_end == loop_begin + loop_length
              smp == [begin |-> sample_data, end |-> sample_data + length,
                      loop_begin |-> loop_begin, loop_end |-> 0,
                      finetune |-> clamp(hd.finetune, 0, MAX_FINETUNE),
                      volume |-> volume]
          IN  IF loop_begin > data_end
              THEN [ok |-> FALSE, sample |-> smp, next |-> sample_data]
              ELSE IF loop_end > data_end
                      \/ (loop_length < MIN_LOOP_LENGTH /\ loop_start # 0)
              THEN [ok |-> FALSE, sample |-> [smp EXCEPT !.loop_end = loop_end],
                    next |-> sample_data]
              ELSE [ok |-> TRUE, sample |-> [smp EXCEPT !.loop_end = loop_end],
                    next |-> sample_data + length]
        ELSE [ok |-> TRUE,
              sample |-> [begin |-> sample_data, end |-> sample_data,
                          loop_begin |-> sample_data, loop_end |-> sample_data,
                          finetune |-> 0, volume |-> volume],
              next |-> sample_data]

\* Player::load, body of the sample loop for one header: the Sample written,
\* whether load() goes on, and the next sample_data
LoadOneSample(hd, sample_data, data_end) ==
    LET length == U16(hd.length * 2)
        sample_end == sample_data + length
        volume == u8_to_s8(clamp(hd.volume, 0, MAX_VOLUME))
    IN  IF length > 2 /\ sample_end <= data_end
        THEN
          LET loop_start == U16(hd.loop_start * 2)
              loop_length == U16(hd.loop_length * 2)
              loop_begin == sample_data + loop_start
              loop_end == loop_begin + loop_length
              smp == [begin |-> sample_data, end |-> sample_data + length,
                      loop_begin |-> loop_begin, loop_end |-> 0,
                      finetune |-> clamp(hd.finetune, 0, MAX_FINETUNE),
                      volume |-> volume]
          IN  IF loop_begin > data_end
              THEN [ok |-> FALSE, sample |-> smp, next |-> sample_data]
              ELSE IF loop_end > data_end
                      \/ (loop_length < MIN_LOOP_LENGTH /\ loop_start # 0)
              THEN [ok |-> FALSE, sample |-> [smp EXCEPT !.loop_end = loop_end],
                    next |-> sample_data]
              ELSE [ok |-> TRUE, sample |-> [smp EXCEPT !.loop_end = loop_end],
                    next |-> sample_data + length]
        ELSE [ok |-> TRUE,
              sample |-> [begin |-> sample_data, end |-> sample_data,
                          loop_begin |-> sample_data, loop_end |-> sample_data,
                          finetune |-> 0, volume |-> volume],
              next |-> sample_data]

\* Player::load, the sample loop from header i on; acc is m_samples so far
\* (zeroed by the memset before the loop)
RECURSIVE LoadSamplesFrom(_, _, _, _)
LoadSamplesFrom(sg, i, sample_data, acc) ==
    IF i > NUM_SAMPLES THEN [ok |-> TRUE, samples |-> acc]
    ELSE LET r == LoadOneSample(SongHeader(sg, i), sample_data, sg.size)
             acc1 == [acc EXCEPT ![i] = r.sample]
         IN  IF r.ok THEN LoadSamplesFrom(sg, i + 1, r.next, acc1)
             ELSE [ok |-> FALSE, samples |-> acc1]

LoadSamples(sg) ==
    LoadSamplesFrom(sg, 1, SampleDataStart(sg), [i \in 1 .. NUM_SAMPLES |-> ZeroSample])

\* Player::load: the checks made before the samples are read
LoadFormatOk(sg) == sg.tag_ok /\ ~(sg.size > MAX_SONG_SIZE)

(***************************************************************************)
(* The Sampler on its own, on the runtime samples load() makes of a file:  *)
(* retrig(), set_period(), set_volume(), reset() from the foreground,      *)
(* fetch_sample() from the interrupt.                                      *)
(***************************************************************************)
\* Sample 1: 12 bytes, loop [4, 10), finetune -8.  Sample 2: 10 bytes, loop
\* [2, 8), finetune -7.  Sample 3: 300 bytes, no loop, finetune 0.
SongLoops ==
    [tag_ok |-> TRUE, size |-> 2430, length |-> 1, orders |-> <<0>>,
     headers |-> << [length |-> 6, finetune |-> 8, volume |-> 64,
                     loop_start |-> 2, loop_length |-> 3],
                    [length |-> 5, finetune |-> 9, volume |-> 64,
                     loop_start |-> 1, loop_length |-> 3],
                    [length |-> 150, finetune |-> 0, volume |-> 40,
                     loop_start |-> 0, loop_length |-> 1] >>,
     cells |-> <<>>, pcm |-> <<128, 0, 127>>]

\* Sample 1: 6 bytes with the loop [4, 10) reaching into sample 2.  Sample 2:
\* 12 bytes, no loop.  Sample 3: 4 bytes, no loop, the last bytes of the file.
SongLoopPastEnd ==
    [tag_ok |-> TRUE, size |-> 2130, length |-> 1, orders |-> <<0>>,
     headers |-> << [length |-> 3, finetune |-> 8, volume |-> 64,
                     loop_start |-> 2, loop_length |-> 3],
                    [length |-> 6, finetune |-> 0, volume |-> 64,
                     loop_start |-> 0, loop_length |-> 0],
                    [length |-> 2, finetune |-> 15, volume |-> 64,
                     loop_start |-> 0, loop_length |-> 1] >>,
     cells |-> <<>>, pcm |-> <<128, 0, 127>>]

SamplerSongs == {SongLoops, SongLoopPastEnd}
MaxSamplerSample == 3
MaxRetrigs == 1
MaxRetunes == 1
MaxFetches == 4
MaxLoopRetrigs == 1
SamplerPeriods == {MIN_PERIOD, 227, MAX_PERIOD}
LoopPeriods == {MIN_PERIOD, MAX_PERIOD}
SampleOffsets == {0, 1, 255}
SamplerVolumes == {0, MAX_VOLUME}

SamplerHistory == [retrigs |-> 0, retunes |-> 0, fetches |-> 0, wrapped |-> FALSE]

SOthers == <<timer, channel, player, m_playing, out, samples, song, pc, pcop, pci, arg>>

\* Sampler::retrig(&m_samples[i - 1], period, sample_offset, volume); i = 0: nullptr
Retrigs(i, period, sample_offset, volume) ==
    /\ sampler' = [sampler EXCEPT ![0] =
            SamplerRetrig(@, i # 0, IF i = 0 THEN ZeroSample ELSE samples[i],
                          period, sample_offset, volume)]
    /\ h' = [h EXCEPT !.retrigs = @ + 1, !.fetches = 0, !.wrapped = FALSE]
    /\ ret' = [op |-> "retrig", val |-> "none"]
    /\ UNCHANGED SOthers

SRetrig(i, period, sample_offset, volume) ==
    /\ h.retrigs < MaxRetrigs
    /\ Retrigs(i, period, sample_offset, volume)

\* retrig() of a sample at its own volume, from its first byte
LRetrig(i, period) ==
    /\ h.retrigs < MaxLoopRetrigs
    /\ Retrigs(i, period, 0, samples[i].volume)

\* Sampler::set_period(period)
SSetPeriod(period) ==
    /\ h.retunes < MaxRetunes
    /\ sampler[0].active
    /\ sampler' = [sampler EXCEPT ![0] = SamplerSetPeriod(@, period)]
    /\ h' = [h EXCEPT !.retunes = @ + 1]
    /\ ret' = [op |-> "set_period", val |-> "none"]
    /\ UNCHANGED SOthers

\* Sampler::set_volume(volume)
SSetVolume(volume) ==
    /\ sampler' = [sampler EXCEPT ![0] = SamplerSetVolume(@, volume)]
    /\ ret' = [op |-> "set_volume", val |-> "none"]
    /\ UNCHANGED <<SOthers, h>>

\* Sampler::reset()
SReset ==
    /\ sampler' = [sampler EXCEPT ![0] = SamplerReset(@)]
    /\ ret' = [op |-> "reset", val |-> "none"]
    /\ UNCHANGED <<SOthers, h>>

\* Sampler::fetch_sample() of channel i: the byte is read from the song buffer
FetchOne(i) ==
    \E byte \in ReadableBytes(song, SamplerReadAddr(sampler[i])) :
        sampler' = [sampler EXCEPT ![i] = SamplerFetchSample(@, byte)]

\* Whether the fetch_sample() about to run reaches m_end
SamplerWraps(s) == s.active /\ s.phase + s.phase_increment >= s.end

\* Sampler::fetch_sample(), with the number of calls since retrig() bounded
SFetchCounted ==
    /\ h.fetches < MaxFetches
    /\ FetchOne(0)
    /\ h' = [h EXCEPT !.fetches = @ + 1, !.wrapped = @ \/ SamplerWraps(sampler[0])]
    /\ ret' = [op |-> "fetch_sample", val |-> "none"]
    /\ UNCHANGED SOthers

\* Sampler::fetch_sample(), any number of calls
SFetch ==
    /\ FetchOne(0)
    /\ h' = [h EXCEPT !.wrapped = @ \/ SamplerWraps(sampler[0])]
    /\ ret' = [op |-> "fetch_sample", val |-> "none"]
    /\ UNCHANGED SOthers

SamplerUnitInit ==
    /\ \E sg \in SamplerSongs : song = sg /\ samples = LoadSamples(sg).samples
    /\ timer = TimerReset(SAMPLES_PER_AMIGA_VBLANK)
    /\ sampler = [i \in Channels |-> ZeroSampler]
    /\ channel = [i \in Channels |-> ZeroChannel]
    /\ player = ZeroPlayer
    /\ m_playing = FALSE
    /\ out = [left |-> 0, right |-> 0]
    /\ pc = "idle" /\ pcop = "none" /\ pci = 0 /\ arg = 0
    /\ ret = NoRet
    /\ h = SamplerHistory

SamplerNext ==
    \/ \E i \in 0 .. MaxSamplerSample, period \in SamplerPeriods,
          sample_offset \in SampleOffsets :
            SRetrig(i, period, sample_offset, MAX_VOLUME)
    \/ \E period \in SamplerPeriods : SSetPeriod(period)
    \/ \E volume \in SamplerVolumes : SSetVolume(volume)
    \/ SReset
    \/ SFetchCounted

SpecSampler == SamplerUnitInit /\ [][SamplerNext]_vars

\* retrig() and then fetch_sample() for ever, the interrupt never stopping
SamplerLoopNext ==
    \/ \E i \in 1 .. MaxSamplerSample, period \in LoopPeriods : LRetrig(i, period)
    \/ SFetch

SpecSamplerLoop == SamplerUnitInit /\ [][SamplerLoopNext]_vars /\ WF_vars(SFetch)

\* C5: an active Sampler has the integer part of its phase inside the sample,
\* begin <= (phase >> 16) < end (here relative to begin: 0 <= phase < m_end),
\* after retrig() with any sample offset and after every fetch_sample().
C5_PhaseInsideSample ==
    \A i \in Channels :
        sampler[i].active =>
            /\ 0 <= sampler[i].phase \div 65536
            /\ sampler[i].phase \div 65536 < sampler[i].end \div 65536

\* C6: a Sampler retriggered with a looping sample (loop of at least
\* MIN_LOOP_LENGTH bytes) has, from some fetch_sample() call on and for ever,
\* the integer part of its phase in [loop_begin, loop_end).
C6_InLoop ==
    \A i \in Channels :
        (sampler[i].active /\ ~sampler[i].loopless) =>
            /\ sampler[i].loop_begin \div 65536 <= sampler[i].phase \div 65536
            /\ sampler[i].phase \div 65536 < sampler[i].loop_end \div 65536
C6_EndsInLoop == <>[]C6_InLoop

\* C6 witness: a sample whose loop starts after its first byte and ends before
\* its last one has been played past its end at the smallest period, and the
\* phase is in the loop.
C6_Witness ==
    /\ sampler[0].active /\ ~sampler[0].loopless /\ h.wrapped
    /\ sampler[0].cached_period = MIN_PERIOD
    /\ sampler[0].loop_begin > 0
    /\ sampler[0].end = sampler[0].loop_end
    /\ sampler[0].phase >= sampler[0].loop_begin
    /\ sampler[0].phase < sampler[0].loop_end

(***************************************************************************)
(* Channel.hpp.  An operator takes the Channel record c (and, where the    *)
(* method reaches them, its Sampler s and the runtime samples smps) and    *)
(* gives the record after the call.                                        *)
(***************************************************************************)
ARPEGGIO_TABLE ==
    << 61857, 58385, 55108, 52015, 49096, 46340, 43740, 41285,
       38967, 36780, 34716, 32768, 30928, 29192, 27554 >>
SINE_TABLE_LENGTH == 32
OSC_PERIOD == SINE_TABLE_LENGTH * 2
SINE_TABLE ==
    << 0, 24, 49, 74, 97, 120, 141, 161, 180, 197, 212,
       224, 235, 244, 250, 253, 255, 253, 250, 244, 235, 224,
       212, 197, 180, 161, 141, 120, 97, 74, 49, 24 >>

\* A store into an int8_t
S8(x) == u8_to_s8(x % 256)

\* *sample for a Sample pointer held by a Channel (0: nullptr)
SampleAt(smps, i) == IF i = 0 THEN ZeroSample ELSE smps[i]

\* m_row_effects.reset()
RowEffectsReset(c) ==
    [c EXCEPT !.re_arpeggio_effect = "NONE", !.re_note_effect = "NONE",
              !.re_period_effect = "NONE", !.re_volume_effect = "NONE"]

\* Channel::reset_row
ChannelResetRow(c) ==
    [RowEffectsReset(c) EXCEPT !.rs_tick_counter = 0, !.rs_delayed_actions = {},
                               !.ts_actions = {}]

\* A mutation of Channel::init: m_input is not cleared.
ChannelInitKeepsInput(c) ==
    [ChannelResetRow(c) EXCEPT
        !.st_sample = 0, !.st_period = 0, !.st_volume = 0,
        !.st_vibrato_pos = 0, !.st_tremolo_pos = 0]

\* Channel::init, the part outside the Sampler
ChannelInit(c) ==
    [ChannelResetRow(c) EXCEPT
        !.st_sample = 0, !.st_period = 0, !.st_volume = 0,
        !.st_vibrato_pos = 0, !.st_tremolo_pos = 0,
        !.in_sample = 0, !.in_period = 0, !.in_portamento_slide = 0,
        !.in_vibrato_speed = 0, !.in_vibrato_depth = 0,
        !.in_tremolo_speed = 0, !.in_tremolo_depth = 0, !.in_sample_offset = 0]

\* Channel::set_period
ChannelSetPeriod(c, period) ==
    IF period = 0 THEN c
    ELSE [c EXCEPT !.in_period = IF period > MAX_PERIOD THEN MAX_PERIOD
                                 ELSE IF period < MIN_PERIOD THEN MIN_PERIOD
                                 ELSE period,
                   !.ts_actions = @ \cup {"RETRIG"}]

\* Channel::set_sample
ChannelSetSample(c, sample) ==
    IF sample = 0 THEN c
    ELSE [c EXCEPT !.in_sample = sample, !.ts_actions = @ \cup {"LOAD_SAMPLE"}]

\* Channel::internal_load_sample
InternalLoadSample(c, smps) ==
    IF "LOAD_SAMPLE" \in c.ts_actions
    THEN [c EXCEPT !.st_sample = c.in_sample,
                   !.st_volume = SampleAt(smps, c.in_sample).volume,
                   !.ts_volume = SampleAt(smps, c.in_sample).volume,
                   !.ts_actions = (@ \ {"LOAD_SAMPLE"}) \cup {"UPDATE_VOLUME"}]
    ELSE c

\* A mutation of Channel::set_volume: the volume is not limited to MAX_VOLUME.
ChannelSetVolumeUnlimited(c, smps, volume) ==
    [InternalLoadSample(c, smps) EXCEPT
        !.st_volume = u8_to_s8(volume),
        !.ts_actions = @ \cup {"UPDATE_VOLUME"}]

\* Channel::set_volume
ChannelSetVolume(c, smps, volume) ==
    [InternalLoadSample(c, smps) EXCEPT
        !.st_volume = IF volume > MAX_VOLUME THEN MAX_VOLUME ELSE u8_to_s8(volume),
        !.ts_actions = @ \cup {"UPDATE_VOLUME"}]

\* A mutation of Channel::inc_volume: the sum is not limited to MAX_VOLUME.
IncVolumeUnlimited(c, smps, delta) ==
    LET c1 == InternalLoadSample(c, smps)
    IN  [c1 EXCEPT !.st_volume = S8(c1.st_volume + u8_to_s8(delta)),
                   !.ts_actions = @ \cup {"UPDATE_VOLUME"}]

\* Channel::inc_volume
IncVolume(c, smps, delta) ==
    LET c1 == InternalLoadSample(c, smps)
    IN  [c1 EXCEPT
            !.st_volume = IF delta > U8(MAX_VOLUME - c1.st_volume) THEN MAX_VOLUME
                          ELSE S8(c1.st_volume + u8_to_s8(delta)),
            !.ts_actions = @ \cup {"UPDATE_VOLUME"}]

\* Channel::dec_volume
DecVolume(c, smps, delta) ==
    LET c1 == InternalLoadSample(c, smps)
    IN  [c1 EXCEPT
            !.st_volume = IF delta > U8(c1.st_volume) THEN 0
                          ELSE S8(c1.st_volume - u8_to_s8(delta)),
            !.ts_actions = @ \cup {"UPDATE_VOLUME"}]

\* Channel::use_volume_inc
UseVolumeInc(c, delta) ==
    IF delta = 0 THEN c
    ELSE [c EXCEPT !.re_volume_effect = "INC", !.re_volume_param = delta]

\* Channel::use_volume_dec
UseVolumeDec(c, delta) ==
    IF delta = 0 THEN c
    ELSE [c EXCEPT !.re_volume_effect = "DEC", !.re_volume_param = delta]

\* Channel::use_volume_tremolo
UseVolumeTremolo(c, speed, depth) ==
    [c EXCEPT !.in_tremolo_speed = IF speed # 0 THEN speed ELSE @,
              !.in_tremolo_depth = IF depth # 0 THEN depth ELSE @,
              !.re_volume_effect = "TREMOLO"]

\* Channel::inc_period
IncPeriod(c, delta) ==
    [c EXCEPT !.st_period = IF c.st_period < MAX_PERIOD - delta
                            THEN U16(c.st_period + delta) ELSE MAX_PERIOD,
              !.ts_actions = @ \cup {"UPDATE_PERIOD"}]

\* Channel::dec_period
DecPeriod(c, delta) ==
    [c EXCEPT !.st_period = IF c.st_period > MIN_PERIOD + delta
                            THEN U16(c.st_period - delta) ELSE MIN_PERIOD,
              !.ts_actions = @ \cup {"UPDATE_PERIOD"}]

\* Channel::use_period_inc
UsePeriodInc(c, delta) == [c EXCEPT !.re_period_effect = "INC", !.re_period_param = delta]

\* Channel::use_period_dec
UsePeriodDec(c, delta) == [c EXCEPT !.re_period_effect = "DEC", !.re_period_param = delta]

\* A mutation of Channel::use_period_portamento: ACTION_RETRIG is left set.
UsePeriodPortamentoRetrigs(c, slide) ==
    [c EXCEPT !.in_portamento_slide = IF slide # 0 THEN slide ELSE @,
              !.re_period_effect = "PORTAMENTO"]

\* Channel::use_period_portamento
UsePeriodPortamento(c, slide) ==
    [c EXCEPT !.in_portamento_slide = IF slide # 0 THEN slide ELSE @,
              !.re_period_effect = "PORTAMENTO",
              !.ts_actions = @ \ {"RETRIG"}]

\* Channel::use_period_vibrato
UsePeriodVibrato(c, speed, depth) ==
    [c EXCEPT !.in_vibrato_speed = IF speed # 0 THEN speed ELSE @,
              !.in_vibrato_depth = IF depth # 0 THEN depth ELSE @,
              !.re_period_effect = "VIBRATO"]

\* A mutation of Channel::set_sample_offset: the offset is stored even when it
\* is 0.
SetSampleOffsetOverwrites(c, offset) ==
    [c EXCEPT !.in_sample_offset = offset,
              !.ts_actions = @ \cup {"USE_SAMPLE_OFFSET"}]

\* Channel::set_sample_offset
SetSampleOffset(c, offset) ==
    [c EXCEPT !.in_sample_offset = IF offset # 0 THEN offset ELSE @,
              !.ts_actions = @ \cup {"USE_SAMPLE_OFFSET"}]

\* Channel::use_note_repeat
UseNoteRepeat(c, ticks) ==
    IF ticks = 0 THEN c
    ELSE [c EXCEPT !.re_note_effect = "REPEAT", !.re_note_param = ticks,
                   !.ts_actions = @ \cup {"RETRIG"}]

\* Channel::use_note_cut
UseNoteCut(c, ticks) ==
    IF ticks # 0
    THEN [c EXCEPT !.re_note_effect = "CUT", !.re_note_param = ticks]
    ELSE [c EXCEPT !.st_volume = 0, !.ts_actions = @ \cup {"UPDATE_VOLUME"},
                   !.re_volume_effect = "NONE"]

\* A mutation of Channel::use_note_delay: the actions stay pending as well.
UseNoteDelayKeeps(c, ticks) ==
    IF ticks = 0 THEN c
    ELSE [c EXCEPT !.re_note_effect = "DELAY", !.re_note_param = ticks,
                   !.rs_delayed_actions = c.ts_actions \cap {"RETRIG", "LOAD_SAMPLE"}]

\* Channel::use_note_delay
UseNoteDelay(c, ticks) ==
    IF ticks = 0 THEN c
    ELSE [c EXCEPT !.re_note_effect = "DELAY", !.re_note_param = ticks,
                   !.rs_delayed_actions = c.ts_actions \cap {"RETRIG", "LOAD_SAMPLE"},
                   !.ts_actions = @ \ {"RETRIG", "LOAD_SAMPLE"}]

\* Channel::use_arpeggio
UseArpeggio(c, note2, note3) ==
    [c EXCEPT !.re_arpeggio_effect = "ARPEGGIO", !.re_arpeggio_params = <<0, note2, note3>>]

\* A mutation of Channel::internal_update_volume, case VOLUME_EFFECT_TREMOLO:
\* the position wraps only when it is past SINE_TABLE_LENGTH (the other volume
\* effects are left out).
InternalUpdateVolumeLateWrap(c) ==
    LET index == c.st_tremolo_pos % SINE_TABLE_LENGTH
        delta == u8_to_s8(U8((SINE_TABLE[index + 1] * c.in_tremolo_depth) \div 64))
        pos1 == S8(c.st_tremolo_pos + c.in_tremolo_speed)
    IN  IF c.re_volume_effect = "TREMOLO"
        THEN [c EXCEPT
                 !.ts_volume =
                     IF c.st_tremolo_pos >= 0
                     THEN IF c.st_volume + delta > MAX_VOLUME THEN MAX_VOLUME
                          ELSE S8(c.st_volume + delta)
                     ELSE IF c.st_volume - delta < 0 THEN 0
                          ELSE S8(c.st_volume - delta),
                 !.ts_actions = @ \cup {"UPDATE_VOLUME"},
                 !.st_tremolo_pos = IF pos1 > SINE_TABLE_LENGTH
                                    THEN S8(pos1 - OSC_PERIOD) ELSE pos1]
        ELSE c

\* Channel::internal_update_volume
InternalUpdateVolume(c) ==
    LET param == u8_to_s8(c.re_volume_param)
        index == c.st_tremolo_pos % SINE_TABLE_LENGTH
        delta == u8_to_s8(U8((SINE_TABLE[index + 1] * c.in_tremolo_depth) \div 64))
        pos1 == S8(c.st_tremolo_pos + c.in_tremolo_speed)
    IN  CASE c.re_volume_effect = "DEC" ->
                LET v == IF param > c.st_volume THEN 0 ELSE S8(c.st_volume - param)
                IN  [c EXCEPT !.st_volume = v, !.ts_volume = v,
                              !.ts_actions = @ \cup {"UPDATE_VOLUME"}]
          [] c.re_volume_effect = "INC" ->
                LET v == IF param > MAX_VOLUME - c.st_volume THEN MAX_VOLUME
                         ELSE S8(c.st_volume + param)
                IN  [c EXCEPT !.st_volume = v, !.ts_volume = v,
                              !.ts_actions = @ \cup {"UPDATE_VOLUME"}]
          [] c.re_volume_effect = "TREMOLO" ->
                [c EXCEPT
                    !.ts_volume =
                        IF c.st_tremolo_pos >= 0
                        THEN IF c.st_volume + delta > MAX_VOLUME THEN MAX_VOLUME
                             ELSE S8(c.st_volume + delta)
                        ELSE IF c.st_volume - delta < 0 THEN 0
                             ELSE S8(c.st_volume - delta),
                    !.ts_actions = @ \cup {"UPDATE_VOLUME"},
                    !.st_tremolo_pos = IF pos1 >= SINE_TABLE_LENGTH
                                       THEN S8(pos1 - OSC_PERIOD) ELSE pos1]
          [] OTHER -> c

\* Channel::internal_update_note
InternalUpdateNote(c) ==
    CASE c.re_note_effect = "CUT" ->
            IF c.rs_tick_counter = c.re_note_param
            THEN RowEffectsReset([c EXCEPT !.st_volume = 0, !.ts_volume = 0,
                                           !.ts_actions = @ \cup {"UPDATE_VOLUME"}])
            ELSE c
      [] c.re_note_effect = "DELAY" ->
            IF c.rs_tick_counter = c.re_note_param
            THEN RowEffectsReset([c EXCEPT !.ts_actions = @ \cup c.rs_delayed_actions])
            ELSE c
      [] c.re_note_effect = "REPEAT" ->
            IF c.rs_tick_counter % c.re_note_param = 0
            THEN [c EXCEPT !.ts_actions = @ \cup {"RETRIG"}]
            ELSE c
      [] OTHER -> c

\* A mutation of Channel::internal_update_period, case
\* PERIOD_EFFECT_PORTAMENTO: the slide is applied without stopping at the
\* target (the other period effects are left out).
InternalUpdatePeriodEffectPasses(c) ==
    IF c.re_period_effect = "PORTAMENTO" /\ c.in_period # 0
    THEN LET p == IF c.st_period > c.in_period
                  THEN IF c.st_period >= c.in_portamento_slide
                       THEN c.st_period - c.in_portamento_slide ELSE 0
                  ELSE IF c.st_period < c.in_period
                  THEN U16(c.st_period + c.in_portamento_slide)
                  ELSE c.st_period
         IN  [c EXCEPT !.st_period = p, !.ts_period = p,
                       !.ts_actions = @ \cup {"UPDATE_PERIOD"}]
    ELSE c

\* Channel::internal_update_period, the switch on the period effect
InternalUpdatePeriodEffect(c) ==
    LET index == c.st_vibrato_pos % SINE_TABLE_LENGTH
        delta == U16((SINE_TABLE[index + 1] * c.in_vibrato_depth) \div 128)
        pos1 == S8(c.st_vibrato_pos + c.in_vibrato_speed)
    IN  CASE c.re_period_effect = "PORTAMENTO" ->
                IF c.in_period = 0 THEN c
                ELSE
                  LET p == IF c.st_period > c.in_period
                           THEN LET q == IF c.st_period >= c.in_portamento_slide
                                         THEN c.st_period - c.in_portamento_slide
                                         ELSE 0
                                IN  IF q < c.in_period THEN c.in_period ELSE q
                           ELSE IF c.st_period < c.in_period
                           THEN LET q == IF c.st_period < MAX_PERIOD
                                         THEN U16(c.st_period + c.in_portamento_slide)
                                         ELSE MAX_PERIOD
                                IN  IF q > c.in_period THEN c.in_period ELSE q
                           ELSE c.st_period
                  IN  [c EXCEPT !.st_period = p, !.ts_period = p,
                                !.ts_actions = @ \cup {"UPDATE_PERIOD"}]
          [] c.re_period_effect = "DEC" ->
                LET q == IF c.st_period >= c.re_period_param
                         THEN c.st_period - c.re_period_param ELSE 0
                    p == IF q < MIN_PERIOD THEN MIN_PERIOD ELSE q
                IN  [c EXCEPT !.st_period = p, !.ts_period = p,
                              !.ts_actions = @ \cup {"UPDATE_PERIOD"}]
          [] c.re_period_effect = "INC" ->
                LET p == IF c.st_period < MAX_PERIOD
                         THEN U16(c.st_period + c.re_period_param) ELSE MAX_PERIOD
                IN  [c EXCEPT !.st_period = p, !.ts_period = p,
                              !.ts_actions = @ \cup {"UPDATE_PERIOD"}]
          [] c.re_period_effect = "VIBRATO" ->
                [c EXCEPT
                    !.ts_period = IF c.st_vibrato_pos >= 0
                                  THEN U16(c.st_period + delta)
                                  ELSE U16(c.st_period - delta),
                    !.ts_actions = @ \cup {"UPDATE_PERIOD"},
                    !.st_vibrato_pos = IF pos1 >= SINE_TABLE_LENGTH
                                       THEN S8(pos1 - OSC_PERIOD) ELSE pos1]
          [] OTHER -> c

\* Channel::internal_update_period
InternalUpdatePeriod(c) ==
    LET c1 == InternalUpdatePeriodEffect(c)
    IN  IF c1.re_arpeggio_effect = "ARPEGGIO"
        THEN [c1 EXCEPT !.ts_actions = @ \cup {"UPDATE_PERIOD", "USE_ARPEGGIO"}]
        ELSE c1

\* (period * multiplier) >> 16 in uint32_t arithmetic, the product split at
\* 2^8 so that no intermediate value leaves the 32-bit range
ArpeggioPeriod(period, multiplier) ==
    ((period \div 256) * multiplier + ((period % 256) * multiplier) \div 256) \div 256

\* Channel::internal_perform_actions: the Channel and its Sampler afterwards
InternalPerformActions(c0, s, smps) ==
    LET c == InternalLoadSample(c0, smps)
    IN  IF "RETRIG" \in c.ts_actions
        THEN [c |-> [c EXCEPT !.st_period = c.in_period,
                              !.st_vibrato_pos = 0, !.st_tremolo_pos = 0],
              s |-> SamplerRetrig(s, c.st_sample # 0, SampleAt(smps, c.st_sample),
                                  c.in_period,
                                  IF "USE_SAMPLE_OFFSET" \in c.ts_actions
                                  THEN c.in_sample_offset ELSE 0,
                                  c.st_volume)]
        ELSE
          LET s1 == IF "UPDATE_VOLUME" \in c.ts_actions
                    THEN SamplerSetVolume(s, c.ts_volume) ELSE s
              shift == c.re_arpeggio_params[(c.rs_tick_counter % ARPEGGIO_PERIOD) + 1]
              p1 == IF "USE_ARPEGGIO" \in c.ts_actions /\ shift # 0
                    THEN ArpeggioPeriod(c.ts_period, ARPEGGIO_TABLE[shift])
                    ELSE c.ts_period
              p2 == IF p1 < MIN_PERIOD THEN MIN_PERIOD
                    ELSE IF p1 > MAX_PERIOD THEN MAX_PERIOD ELSE p1
          IN  IF "UPDATE_PERIOD" \in c.ts_actions
              THEN [c |-> [c EXCEPT !.ts_period = p2], s |-> SamplerSetPeriod(s1, p2)]
              ELSE [c |-> c, s |-> s1]

\* Channel::tick: the Channel and its Sampler afterwards
ChannelTick(c0, s, smps) ==
    LET c1 == [c0 EXCEPT !.ts_period = c0.st_period, !.ts_volume = c0.st_volume]
        c2 == IF c1.rs_tick_counter # 0
              THEN InternalUpdatePeriod(InternalUpdateNote(InternalUpdateVolume(c1)))
              ELSE c1
        r == InternalPerformActions(c2, s, smps)
    IN  [c |-> [r.c EXCEPT !.rs_tick_counter = U8(@ + 1), !.ts_actions = {}],
         s |-> r.s]

(***************************************************************************)
(* Player.hpp: the pure parts of fetch_pattern, fetch_row,                 *)
(* internal_fetch_next_row and tick.                                       *)
(***************************************************************************)
\* A store into an int16_t
S16(x) == ((x + 32768) % 65536) - 32768

\* Player::fetch_pattern: m_pattern_data, held as the pattern number
FetchPattern(pl, sg) == [pl EXCEPT !.pattern = SongOrder(sg, pl.order)]

\* Player::fetch_row: the fields of a cell
CellSample(cell) == (cell[1] \div 16) * 16 + (cell[3] \div 16)
CellPeriod(cell) == (cell[1] % 16) * 256 + cell[2]
CellEffect(cell) == cell[3] % 16
CellParam(cell) == cell[4]

\* Player::fetch_row, one cell: what it does to the Channel
CellChannel(c, smps, cell) ==
    LET sample == CellSample(cell)
        effect == CellEffect(cell)
        param == CellParam(cell)
        c1 == ChannelResetRow(c)
        c2 == IF sample # 0 /\ sample <= NUM_SAMPLES THEN ChannelSetSample(c1, sample) ELSE c1
        c3 == ChannelSetPeriod(c2, CellPeriod(cell))
        ext_effect == hi_nibble(param)
        ext_param == lo_nibble(param)
        slide == UseVolumeInc(UseVolumeDec(c3, lo_nibble(param)), hi_nibble(param))
    IN  CASE effect = 0 -> IF param # 0
                           THEN UseArpeggio(c3, hi_nibble(param), lo_nibble(param))
                           ELSE c3
          [] effect = 1 -> UsePeriodDec(c3, param)
          [] effect = 2 -> UsePeriodInc(c3, param)
          [] effect = 3 -> UsePeriodPortamento(c3, param)
          [] effect = 4 -> UsePeriodVibrato(c3, hi_nibble(param), lo_nibble(param))
          [] effect = 5 -> UsePeriodPortamento(slide, 0)
          [] effect = 6 -> UsePeriodVibrato(slide, 0, 0)
          [] effect = 7 -> UseVolumeTremolo(c3, hi_nibble(param), lo_nibble(param))
          [] effect = 9 -> SetSampleOffset(c3, param)
          [] effect = 10 -> slide
          [] effect = 12 -> ChannelSetVolume(c3, smps, param)
          [] effect = 14 ->
                CASE ext_effect = 1 -> DecPeriod(c3, ext_param)
                  [] ext_effect = 2 -> IncPeriod(c3, ext_param)
                  [] ext_effect = 9 -> UseNoteRepeat(c3, ext_param)
                  [] ext_effect = 10 -> IncVolume(c3, smps, ext_param)
                  [] ext_effect = 11 -> DecVolume(c3, smps, ext_param)
                  [] ext_effect = 12 -> UseNoteCut(c3, ext_param)
                  [] ext_effect = 13 -> UseNoteDelay(c3, ext_param)
                  [] OTHER -> c3
          [] OTHER -> c3

\* A mutation of Player::fetch_row, effect E6x: the counter is tested before it
\* is decremented (state.loop_counter--).
PatternLoopPostDecrement(pl, i, ext_param) ==
    LET state == pl.pattern_state[i]
        jump == [pl EXCEPT !.actions = @ \cup {"JUMP_TO_ROW"},
                           !.jump_to_row = state.loop_start_row]
    IN  IF ext_param = 0
        THEN [pl EXCEPT !.pattern_state[i].loop_start_row = pl.row]
        ELSE IF state.loop_counter = 0
        THEN [jump EXCEPT !.pattern_state[i].loop_counter = ext_param]
        ELSE [jump EXCEPT !.pattern_state[i].loop_counter = U8(state.loop_counter - 1)]

\* Player::fetch_row, effect E6x of channel i: m_pattern_state[i] and m_row_actions
PatternLoop(pl, i, ext_param) ==
    LET state == pl.pattern_state[i]
        jump == [pl EXCEPT !.actions = @ \cup {"JUMP_TO_ROW"},
                           !.jump_to_row = state.loop_start_row]
    IN  IF ext_param = 0
        THEN [pl EXCEPT !.pattern_state[i].loop_start_row = pl.row]
        ELSE IF state.loop_counter = 0
        THEN [jump EXCEPT !.pattern_state[i].loop_counter = ext_param]
        ELSE IF U8(state.loop_counter - 1) # 0
        THEN [jump EXCEPT !.pattern_state[i].loop_counter = U8(state.loop_counter - 1)]
        ELSE [pl EXCEPT !.pattern_state[i].loop_counter = 0]

\* A mutation of Player::fetch_row, effect Dxy: the row is x*16+y.
BreakPosHex(param) == param

\* Player::fetch_row, effect Dxy: pos = param_x * 10 + param_y, as uint8_t
BreakPos(param) == U8(hi_nibble(param) * 10 + lo_nibble(param))

\* Player::fetch_row, one cell of channel i: what it does to the Player
CellPlayer(pl, i, cell) ==
    LET effect == CellEffect(cell)
        param == CellParam(cell)
    IN  CASE effect = 11 -> [pl EXCEPT !.actions = @ \cup {"JUMP_TO_ORDER"},
                                       !.jump_to_order = param]
          [] effect = 13 -> [pl EXCEPT !.actions = @ \cup {"PATTERN_BREAK"},
                                       !.jump_to_row = BreakPos(param)]
          [] effect = 14 /\ hi_nibble(param) = 6 -> PatternLoop(pl, i, lo_nibble(param))
          [] effect = 14 /\ hi_nibble(param) = 14 -> [pl EXCEPT !.delay = lo_nibble(param)]
          [] effect = 15 /\ param = 0 /\ pl.stop_on_f00 ->
                [pl EXCEPT !.actions = @ \cup {"STOP"}]
          [] effect = 15 /\ param # 0 /\ param <= MAX_TICKS_PER_ROW ->
                [pl EXCEPT !.ticks_per_row = param]
          [] effect = 15 /\ param > MAX_TICKS_PER_ROW ->
                [pl EXCEPT !.max_bpm = maximum(pl.max_bpm, param)]
          [] OTHER -> pl

\* Player::fetch_row, effect Fxx with xx > MAX_TICKS_PER_ROW: whether the cell
\* calls Timer::set_period, and the tick period it passes
CellSetsTempo(cell) == CellEffect(cell) = 15 /\ CellParam(cell) > MAX_TICKS_PER_ROW
CellTickPeriodUnhalved(cell) == U16((5 * SAMPLING_FREQ) \div CellParam(cell))
CellTickPeriod(cell) == U16(((5 * SAMPLING_FREQ) \div CellParam(cell)) \div 2)

\* A mutation of Player::internal_fetch_next_row: LOOP_SONG_ONCE refuses the
\* first backward jump.
InternalFetchNextRowNoWrap(pl, sg) ==
    LET row1 == U8(pl.row + 1)
        leave == row1 = NUM_ROWS \/ pl.actions \cap {"PATTERN_BREAK", "JUMP_TO_ORDER"} # {}
        p1 == [pl EXCEPT !.row = row1]
        backward == pl.jump_to_order <= pl.order
        counted == IF backward /\ pl.mode = "LOOP_SONG_ONCE"
                   THEN [p1 EXCEPT !.loop_counter = U8(@ + 1)] ELSE p1
        order1 == U8(pl.order + 1)
        \* the order step: ok = FALSE where the code returns false
        ordered ==
            IF pl.mode = "LOOP_PATTERN" THEN [ok |-> TRUE, pl |-> p1]
            ELSE IF "JUMP_TO_ORDER" \in pl.actions
            THEN IF backward /\ pl.mode = "PLAY_SONG_ONCE" THEN [ok |-> FALSE, pl |-> p1]
                 ELSE IF backward /\ pl.mode = "LOOP_SONG_ONCE" /\ pl.loop_counter = 0
                 THEN [ok |-> FALSE, pl |-> counted]
                 ELSE IF ~backward /\ pl.jump_to_order >= pl.order_count
                 THEN [ok |-> FALSE, pl |-> p1]
                 ELSE [ok |-> TRUE, pl |-> [counted EXCEPT !.order = pl.jump_to_order]]
            ELSE IF order1 = pl.order_count
            THEN [ok |-> pl.mode = "LOOP_SONG", pl |-> [p1 EXCEPT !.order = 0]]
            ELSE [ok |-> TRUE, pl |-> [p1 EXCEPT !.order = order1]]
        p2 == [ordered.pl EXCEPT !.pattern_state = [i \in Channels |-> ZeroPatternState]]
        broken ==
            IF "PATTERN_BREAK" \in pl.actions
            THEN IF pl.jump_to_row >= NUM_ROWS THEN [ok |-> FALSE, pl |-> p2]
                 ELSE [ok |-> TRUE, pl |-> [p2 EXCEPT !.row = pl.jump_to_row]]
            ELSE [ok |-> TRUE, pl |-> [p2 EXCEPT !.row = 0]]
        r == IF "STOP" \in pl.actions THEN [ok |-> FALSE, pl |-> pl]
             ELSE IF "JUMP_TO_ROW" \in pl.actions
             THEN [ok |-> TRUE, pl |-> [pl EXCEPT !.row = pl.jump_to_row]]
             ELSE IF ~leave THEN [ok |-> TRUE, pl |-> p1]
             ELSE IF ~ordered.ok THEN ordered
             ELSE IF ~broken.ok THEN broken
             ELSE [ok |-> TRUE, pl |-> FetchPattern(broken.pl, sg)]
    IN  IF r.ok THEN [ok |-> TRUE, pl |-> [r.pl EXCEPT !.actions = {}]] ELSE r

\* A mutation of Player::internal_fetch_next_row: at the end of the order list
\* only PLAY_SONG_ONCE returns false.
InternalFetchNextRowRewinds(pl, sg) ==
    LET row1 == U8(pl.row + 1)
        leave == row1 = NUM_ROWS \/ pl.actions \cap {"PATTERN_BREAK", "JUMP_TO_ORDER"} # {}
        p1 == [pl EXCEPT !.row = row1]
        backward == pl.jump_to_order <= pl.order
        counted == IF backward /\ pl.mode = "LOOP_SONG_ONCE"
                   THEN [p1 EXCEPT !.loop_counter = U8(@ + 1)] ELSE p1
        order1 == U8(pl.order + 1)
        \* the order step: ok = FALSE where the code returns false
        ordered ==
            IF pl.mode = "LOOP_PATTERN" THEN [ok |-> TRUE, pl |-> p1]
            ELSE IF "JUMP_TO_ORDER" \in pl.actions
            THEN IF backward /\ pl.mode = "PLAY_SONG_ONCE" THEN [ok |-> FALSE, pl |-> p1]
                 ELSE IF backward /\ pl.mode = "LOOP_SONG_ONCE" /\ pl.loop_counter = 1
                 THEN [ok |-> FALSE, pl |-> counted]
                 ELSE IF ~backward /\ pl.jump_to_order >= pl.order_count
                 THEN [ok |-> FALSE, pl |-> p1]
                 ELSE [ok |-> TRUE, pl |-> [counted EXCEPT !.order = pl.jump_to_order]]
            ELSE IF order1 = pl.order_count
            THEN [ok |-> pl.mode # "PLAY_SONG_ONCE", pl |-> [p1 EXCEPT !.order = 0]]
            ELSE [ok |-> TRUE, pl |-> [p1 EXCEPT !.order = order1]]
        p2 == [ordered.pl EXCEPT !.pattern_state = [i \in Channels |-> ZeroPatternState]]
        broken ==
            IF "PATTERN_BREAK" \in pl.actions
            THEN IF pl.jump_to_row >= NUM_ROWS THEN [ok |-> FALSE, pl |-> p2]
                 ELSE [ok |-> TRUE, pl |-> [p2 EXCEPT !.row = pl.jump_to_row]]
            ELSE [ok |-> TRUE, pl |-> [p2 EXCEPT !.row = 0]]
        r == IF "STOP" \in pl.actions THEN [ok |-> FALSE, pl |-> pl]
             ELSE IF "JUMP_TO_ROW" \in pl.actions
             THEN [ok |-> TRUE, pl |-> [pl EXCEPT !.row = pl.jump_to_row]]
             ELSE IF ~leave THEN [ok |-> TRUE, pl |-> p1]
             ELSE IF ~ordered.ok THEN ordered
             ELSE IF ~broken.ok THEN broken
             ELSE [ok |-> TRUE, pl |-> FetchPattern(broken.pl, sg)]
    IN  IF r.ok THEN [ok |-> TRUE, pl |-> [r.pl EXCEPT !.actions = {}]] ELSE r

\* A mutation of Player::internal_fetch_next_row: m_pattern_state is not reset
\* when the pattern is left.
InternalFetchNextRowKeepsLoops(pl, sg) ==
    LET row1 == U8(pl.row + 1)
        leave == row1 = NUM_ROWS \/ pl.actions \cap {"PATTERN_BREAK", "JUMP_TO_ORDER"} # {}
        p1 == [pl EXCEPT !.row = row1]
        backward == pl.jump_to_order <= pl.order
        counted == IF backward /\ pl.mode = "LOOP_SONG_ONCE"
                   THEN [p1 EXCEPT !.loop_counter = U8(@ + 1)] ELSE p1
        order1 == U8(pl.order + 1)
        \* the order step: ok = FALSE where the code returns false
        ordered ==
            IF pl.mode = "LOOP_PATTERN" THEN [ok |-> TRUE, pl |-> p1]
            ELSE IF "JUMP_TO_ORDER" \in pl.actions
            THEN IF backward /\ pl.mode = "PLAY_SONG_ONCE" THEN [ok |-> FALSE, pl |-> p1]
                 ELSE IF backward /\ pl.mode = "LOOP_SONG_ONCE" /\ pl.loop_counter = 1
                 THEN [ok |-> FALSE, pl |-> counted]
                 ELSE IF ~backward /\ pl.jump_to_order >= pl.order_count
                 THEN [ok |-> FALSE, pl |-> p1]
                 ELSE [ok |-> TRUE, pl |-> [counted EXCEPT !.order = pl.jump_to_order]]
            ELSE IF order1 = pl.order_count
            THEN [ok |-> pl.mode = "LOOP_SONG", pl |-> [p1 EXCEPT !.order = 0]]
            ELSE [ok |-> TRUE, pl |-> [p1 EXCEPT !.order = order1]]
        p2 == ordered.pl
        broken ==
            IF "PATTERN_BREAK" \in pl.actions
            THEN IF pl.jump_to_row >= NUM_ROWS THEN [ok |-> FALSE, pl |-> p2]
                 ELSE [ok |-> TRUE, pl |-> [p2 EXCEPT !.row = pl.jump_to_row]]
            ELSE [ok |-> TRUE, pl |-> [p2 EXCEPT !.row = 0]]
        r == IF "STOP" \in pl.actions THEN [ok |-> FALSE, pl |-> pl]
             ELSE IF "JUMP_TO_ROW" \in pl.actions
             THEN [ok |-> TRUE, pl |-> [pl EXCEPT !.row = pl.jump_to_row]]
             ELSE IF ~leave THEN [ok |-> TRUE, pl |-> p1]
             ELSE IF ~ordered.ok THEN ordered
             ELSE IF ~broken.ok THEN broken
             ELSE [ok |-> TRUE, pl |-> FetchPattern(broken.pl, sg)]
    IN  IF r.ok THEN [ok |-> TRUE, pl |-> [r.pl EXCEPT !.actions = {}]] ELSE r

\* Player::internal_fetch_next_row up to the call of fetch_row: the value
\* returned when it returns early (ok = FALSE), and the Player state
InternalFetchNextRow(pl, sg) ==
    LET row1 == U8(pl.row + 1)
        leave == row1 = NUM_ROWS \/ pl.actions \cap {"PATTERN_BREAK", "JUMP_TO_ORDER"} # {}
        p1 == [pl EXCEPT !.row = row1]
        backward == pl.jump_to_order <= pl.order
        counted == IF backward /\ pl.mode = "LOOP_SONG_ONCE"
                   THEN [p1 EXCEPT !.loop_counter = U8(@ + 1)] ELSE p1
        order1 == U8(pl.order + 1)
        \* the order step: ok = FALSE where the code returns false
        ordered ==
            IF pl.mode = "LOOP_PATTERN" THEN [ok |-> TRUE, pl |-> p1]
            ELSE IF "JUMP_TO_ORDER" \in pl.actions
            THEN IF backward /\ pl.mode = "PLAY_SONG_ONCE" THEN [ok |-> FALSE, pl |-> p1]
                 ELSE IF backward /\ pl.mode = "LOOP_SONG_ONCE" /\ pl.loop_counter = 1
                 THEN [ok |-> FALSE, pl |-> counted]
                 ELSE IF ~backward /\ pl.jump_to_order >= pl.order_count
                 THEN [ok |-> FALSE, pl |-> p1]
                 ELSE [ok |-> TRUE, pl |-> [counted EXCEPT !.order = pl.jump_to_order]]
            ELSE IF order1 = pl.order_count
            THEN [ok |-> pl.mode = "LOOP_SONG", pl |-> [p1 EXCEPT !.order = 0]]
            ELSE [ok |-> TRUE, pl |-> [p1 EXCEPT !.order = order1]]
        p2 == [ordered.pl EXCEPT !.pattern_state = [i \in Channels |-> ZeroPatternState]]
        broken ==
            IF "PATTERN_BREAK" \in pl.actions
            THEN IF pl.jump_to_row >= NUM_ROWS THEN [ok |-> FALSE, pl |-> p2]
                 ELSE [ok |-> TRUE, pl |-> [p2 EXCEPT !.row = pl.jump_to_row]]
            ELSE [ok |-> TRUE, pl |-> [p2 EXCEPT !.row = 0]]
        r == IF "STOP" \in pl.actions THEN [ok |-> FALSE, pl |-> pl]
             ELSE IF "JUMP_TO_ROW" \in pl.actions
             THEN [ok |-> TRUE, pl |-> [pl EXCEPT !.row = pl.jump_to_row]]
             ELSE IF ~leave THEN [ok |-> TRUE, pl |-> p1]
             ELSE IF ~ordered.ok THEN ordered
             ELSE IF ~broken.ok THEN broken
             ELSE [ok |-> TRUE, pl |-> FetchPattern(broken.pl, sg)]
    IN  IF r.ok THEN [ok |-> TRUE, pl |-> [r.pl EXCEPT !.actions = {}]] ELSE r

\* Player::tick, the mixer: the outputs for the four Samplers after fetch_sample
Mix(smp) ==
    LET new_left == S16(SamplerGetSample(smp[0]) + SamplerGetSample(smp[3]))
        new_right == S16(SamplerGetSample(smp[1]) + SamplerGetSample(smp[2]))
    IN  [left |-> S16(new_left * 2), right |-> S16(new_right * 2)]

(***************************************************************************)
(* The Player: load(), update(), stop() and set_mode() from the            *)
(* foreground, tick() from the sample-rate interrupt or from the host.     *)
(* A foreground call is a sequence of steps (pc, with pcop the call and    *)
(* pci the channel of its loop); tick() runs as a whole between two steps. *)
(***************************************************************************)
Modes == {"PLAY_SONG_ONCE", "LOOP_SONG_ONCE", "LOOP_SONG", "LOOP_PATTERN"}

PlayerHistory ==
    [loads |-> 0, ticks |-> 0, clocks |-> 0, preempts |-> 0,
     stopped |-> FALSE, failed |-> FALSE, terminal |-> FALSE, interrupted |-> FALSE,
     last_set |-> 0, rows |-> <<>>, stop_ticks |-> 0, ends |-> 0,
     patterns |-> <<>>, flows |-> <<>>]

\* After Player::init()
PlayerInit ==
    /\ timer = TimerReset(0)
    /\ RestInit
    /\ h = PlayerHistory

\* Player::load: m_song_info and the reset of m_pattern_state
LoadInfo(pl, sg) ==
    [pl EXCEPT !.order_count = IF LoadFormatOk(sg) THEN sg.length ELSE 0,
               !.pattern_count = IF LoadFormatOk(sg) THEN SongPatternCount(sg) ELSE 0,
               !.pattern_state = [i \in Channels |-> ZeroPatternState]]

\* A mutation of Player::load: the initial speed is one tick too many.
LoadStateSlow(pl, sg) ==
    FetchPattern([pl EXCEPT !.mode = "PLAY_SONG_ONCE", !.loop_counter = 0,
                            !.order = 0, !.row = 0, !.ticks_per_row = INITIAL_SPEED + 1,
                            !.tick = 0, !.delay = 0,
                            !.actions = {}, !.jump_to_order = 0, !.jump_to_row = 0,
                            !.max_bpm = INITIAL_BPM, !.playback_duration = 0], sg)

\* Player::load, "State" and fetch_pattern()
LoadState(pl, sg) ==
    FetchPattern([pl EXCEPT !.mode = "PLAY_SONG_ONCE", !.loop_counter = 0,
                            !.order = 0, !.row = 0, !.ticks_per_row = INITIAL_SPEED,
                            !.tick = 0, !.delay = 0,
                            !.actions = {}, !.jump_to_order = 0, !.jump_to_row = 0,
                            !.max_bpm = INITIAL_BPM, !.playback_duration = 0], sg)

\* A mutation of Player::load: m_playing is left as it was.
LoadKeepsPlaying(sg) ==
    /\ pc = "idle"
    /\ LET ok == LoadFormatOk(sg) /\ LoadSamples(sg).ok
       IN  /\ m_playing' = m_playing
           /\ sampler' = [i \in Channels |-> SamplerReset(sampler[i])]
           /\ channel' = [i \in Channels |-> ChannelInit(channel[i])]
           /\ out' = [left |-> 0, right |-> 0]
           /\ song' = sg
           /\ samples' = IF LoadFormatOk(sg) THEN LoadSamples(sg).samples
                         ELSE [i \in 1 .. NUM_SAMPLES |-> ZeroSample]
           /\ player' = IF ok THEN LoadState(LoadInfo(player, sg), sg)
                        ELSE LoadInfo(player, sg)
           /\ timer' = IF ok THEN TimerReset(SAMPLES_PER_AMIGA_VBLANK) ELSE timer
           /\ pc' = IF ok THEN "fetch_cell" ELSE "idle"
           /\ pcop' = IF ok THEN "load" ELSE "none"
           /\ ret' = [op |-> "load", val |-> IF ok THEN "none" ELSE "FALSE"]
           /\ h' = [h EXCEPT !.loads = @ + 1, !.ticks = 0, !.clocks = 0,
                             !.stopped = FALSE, !.failed = ~ok, !.terminal = FALSE,
                             !.interrupted = FALSE,
                             !.rows = IF ok THEN << <<0, 0>> >> ELSE <<>>,
                             !.stop_ticks = 0, !.ends = 0,
                             !.patterns = IF ok THEN << <<0, SongOrder(sg, 0), 0>> >>
                                          ELSE <<>>,
                             !.flows = IF ok THEN <<LoadState(LoadInfo(player, sg),
                                                              sg).pattern_state>>
                                       ELSE <<>>]
    /\ pci' = 0
    /\ UNCHANGED arg

\* Player::load(data, size) up to fetch_row(), or to its return of false
Load(sg) ==
    /\ pc = "idle"
    /\ LET ok == LoadFormatOk(sg) /\ LoadSamples(sg).ok
       IN  /\ m_playing' = FALSE
           /\ sampler' = [i \in Channels |-> SamplerReset(sampler[i])]
           /\ channel' = [i \in Channels |-> ChannelInit(channel[i])]
           /\ out' = [left |-> 0, right |-> 0]
           /\ song' = sg
           /\ samples' = IF LoadFormatOk(sg) THEN LoadSamples(sg).samples
                         ELSE [i \in 1 .. NUM_SAMPLES |-> ZeroSample]
           /\ player' = IF ok THEN LoadState(LoadInfo(player, sg), sg)
                        ELSE LoadInfo(player, sg)
           /\ timer' = IF ok THEN TimerReset(SAMPLES_PER_AMIGA_VBLANK) ELSE timer
           /\ pc' = IF ok THEN "fetch_cell" ELSE "idle"
           /\ pcop' = IF ok THEN "load" ELSE "none"
           /\ ret' = [op |-> "load", val |-> IF ok THEN "none" ELSE "FALSE"]
           /\ h' = [h EXCEPT !.loads = @ + 1, !.ticks = 0, !.clocks = 0,
                             !.stopped = FALSE, !.failed = ~ok, !.terminal = FALSE,
                             !.interrupted = FALSE,
                             !.rows = IF ok THEN << <<0, 0>> >> ELSE <<>>,
                             !.stop_ticks = 0, !.ends = 0,
                             !.patterns = IF ok THEN << <<0, SongOrder(sg, 0), 0>> >>
                                          ELSE <<>>,
                             !.flows = IF ok THEN <<LoadState(LoadInfo(player, sg),
                                                              sg).pattern_state>>
                                       ELSE <<>>]
    /\ pci' = 0
    /\ UNCHANGED arg

\* A mutation of Player::fetch_row: the loop over the cells ends one channel
\* early.
AfterCellShort(i, op) ==
    IF i + 2 < NUM_CHANNELS THEN "fetch_cell"
    ELSE IF op = "load" THEN "load_end" ELSE "chan_tick"

\* Player::fetch_row: where the loop over the cells goes after the cell of
\* channel i, in load() and in update()
AfterCell(i, op) ==
    IF i + 1 < NUM_CHANNELS THEN "fetch_cell"
    ELSE IF op = "load" THEN "load_end" ELSE "chan_tick"
NextChannel(i) == IF i + 1 < NUM_CHANNELS THEN i + 1 ELSE 0

\* Player::fetch_row, the cell of channel pci, up to a call of Timer::set_period
FetchCell ==
    /\ pc = "fetch_cell"
    /\ LET cell == SongCell(song, player.pattern, player.row, pci)
       IN  /\ channel' = [channel EXCEPT ![pci] = CellChannel(@, samples, cell)]
           /\ player' = CellPlayer(player, pci, cell)
           /\ pc' = IF CellSetsTempo(cell) THEN "sp_wait" ELSE AfterCell(pci, pcop)
           /\ pci' = IF CellSetsTempo(cell) THEN pci ELSE NextChannel(pci)
           /\ arg' = IF CellSetsTempo(cell) THEN CellTickPeriod(cell) ELSE arg
    /\ UNCHANGED <<tmVars, spVars, m_playing, out, samples, song, pcop, obVars>>

\* Timer::set_period called by fetch_row: m_load_new_period = true, and
\* fetch_row goes on with the next cell
CellSetPeriodFlag ==
    /\ pc = "sp_flag" /\ pcop \in {"load", "update"}
    /\ timer' = TimerFlag(timer)
    /\ pc' = AfterCell(pci, pcop)
    /\ pci' = NextChannel(pci)
    /\ UNCHANGED <<spVars, plVars, pcop, arg, obVars>>

\* Player::load: m_playing = true; return true
LoadEnd ==
    /\ pc = "load_end"
    /\ m_playing' = TRUE
    /\ pc' = "idle" /\ pcop' = "none"
    /\ ret' = [op |-> "load", val |-> "TRUE"]
    /\ UNCHANGED <<tmVars, spVars, channel, player, out, samples, song, pci, arg, h>>

\* Player::set_mode
SetMode(mode) ==
    /\ pc = "idle"
    /\ player' = [player EXCEPT !.mode = mode]
    /\ ret' = [op |-> "set_mode", val |-> "none"]
    /\ UNCHANGED <<tmVars, spVars, channel, m_playing, out, samples, song, fgVars, h>>

\* Player::update: the tick of the row is its last one and no row delay is left
EndsRow(pl) == U8(pl.tick + 1) >= pl.ticks_per_row /\ pl.delay = 0

\* A mutation of Player::update: when internal_fetch_next_row() returns false,
\* stop() is not called.
UpdateEntryNeverStops(pl, t, sg, playing) ==
    IF ~playing THEN [pc |-> "idle", val |-> "INACTIVE", pl |-> pl]
    ELSE IF ~TimerIsFired(t) THEN [pc |-> "idle", val |-> "IDLE", pl |-> pl]
    ELSE
      LET timed == [pl EXCEPT !.playback_duration =
                                  @ + TimerGetPeriod(t) * DOWNSAMPLING_FACTOR]
          tick1 == U8(pl.tick + 1)
          fetched == InternalFetchNextRow([timed EXCEPT !.tick = 0], sg)
      IN  IF tick1 < pl.ticks_per_row
          THEN [pc |-> "chan_tick", val |-> "none", pl |-> [timed EXCEPT !.tick = tick1]]
          ELSE IF pl.delay # 0
          THEN [pc |-> "chan_tick", val |-> "none",
                pl |-> [timed EXCEPT !.tick = 0, !.delay = @ - 1]]
          ELSE IF fetched.ok
          THEN [pc |-> "fetch_cell", val |-> "none", pl |-> fetched.pl]
          ELSE [pc |-> "chan_tick", val |-> "none", pl |-> fetched.pl]

\* Player::update up to its first return, or to the call of fetch_row(), of the
\* Channel::tick() loop or of stop(): the next step, the value returned and the
\* Player state
UpdateEntry(pl, t, sg, playing) ==
    IF ~playing THEN [pc |-> "idle", val |-> "INACTIVE", pl |-> pl]
    ELSE IF ~TimerIsFired(t) THEN [pc |-> "idle", val |-> "IDLE", pl |-> pl]
    ELSE
      LET timed == [pl EXCEPT !.playback_duration =
                                  @ + TimerGetPeriod(t) * DOWNSAMPLING_FACTOR]
          tick1 == U8(pl.tick + 1)
          fetched == InternalFetchNextRow([timed EXCEPT !.tick = 0], sg)
      IN  IF tick1 < pl.ticks_per_row
          THEN [pc |-> "chan_tick", val |-> "none", pl |-> [timed EXCEPT !.tick = tick1]]
          ELSE IF pl.delay # 0
          THEN [pc |-> "chan_tick", val |-> "none",
                pl |-> [timed EXCEPT !.tick = 0, !.delay = @ - 1]]
          ELSE IF fetched.ok
          THEN [pc |-> "fetch_cell", val |-> "none", pl |-> fetched.pl]
          ELSE [pc |-> "stop_off", val |-> "none", pl |-> fetched.pl]

\* Player::internal_fetch_next_row, when it returns true: fetch_pattern() has
\* been called (on_play_pattern) before fetch_row()
FetchesPattern(pl) ==
    /\ "JUMP_TO_ROW" \notin pl.actions
    /\ \/ U8(pl.row + 1) = NUM_ROWS
       \/ pl.actions \cap {"PATTERN_BREAK", "JUMP_TO_ORDER"} # {}

\* The row a PLAY_SONG_ONCE song ends with: the last row of the last order,
\* carrying no jump
TerminalRow(pl) ==
    /\ pl.mode = "PLAY_SONG_ONCE"
    /\ pl.row = NUM_ROWS - 1
    /\ pl.order + 1 = pl.order_count
    /\ pl.actions = {}

\* Player::update() is called
Update ==
    /\ pc = "idle"
    /\ LET e == UpdateEntry(player, timer, song, m_playing)
       IN  /\ player' = e.pl
           /\ timer' = IF m_playing THEN TimerAfterIsFired(timer) ELSE timer
           /\ pc' = e.pc
           /\ pcop' = IF e.pc = "idle" THEN "none" ELSE "update"
           /\ ret' = [op |-> "update", val |-> e.val]
    /\ pci' = 0
    /\ h' = [h EXCEPT !.terminal = @ \/ (/\ m_playing
                                         /\ TimerIsFired(timer)
                                         /\ EndsRow(player)
                                         /\ TerminalRow(player)),
                      !.rows = LET e == UpdateEntry(player, timer, song, m_playing)
                               IN  IF e.pc = "fetch_cell"
                                   THEN Append(@, <<e.pl.order, e.pl.row>>) ELSE @,
                      !.stop_ticks = IF /\ m_playing
                                        /\ TimerIsFired(timer)
                                        /\ "STOP" \in player.actions
                                     THEN @ + 1 ELSE @,
                      !.patterns = LET e == UpdateEntry(player, timer, song, m_playing)
                                   IN  IF e.pc = "fetch_cell" /\ FetchesPattern(player)
                                       THEN Append(@, <<e.pl.order, e.pl.pattern,
                                                        Len(h.rows)>>)
                                       ELSE @,
                      !.flows = LET e == UpdateEntry(player, timer, song, m_playing)
                                IN  IF e.pc = "fetch_cell"
                                    THEN Append(@, e.pl.pattern_state) ELSE @]
    /\ UNCHANGED <<spVars, channel, m_playing, out, samples, song, arg>>

\* Player::update: Channel::tick() of channel pci; after the last channel
\* update() returns TICK
ChannelTickStep ==
    /\ pc = "chan_tick"
    /\ LET r == ChannelTick(channel[pci], sampler[pci], samples)
       IN  /\ channel' = [channel EXCEPT ![pci] = r.c]
           /\ sampler' = [sampler EXCEPT ![pci] = r.s]
    /\ pc' = IF pci + 1 < NUM_CHANNELS THEN "chan_tick" ELSE "idle"
    /\ pcop' = IF pci + 1 < NUM_CHANNELS THEN pcop ELSE "none"
    /\ pci' = NextChannel(pci)
    /\ ret' = IF pci + 1 < NUM_CHANNELS THEN ret ELSE [op |-> "update", val |-> "TICK"]
    /\ h' = IF pci + 1 < NUM_CHANNELS THEN h ELSE [h EXCEPT !.ticks = @ + 1]
    /\ UNCHANGED <<tmVars, player, m_playing, out, samples, song, arg>>

\* Player::stop() is called
Stop ==
    /\ pc = "idle"
    /\ pc' = "stop_off" /\ pcop' = "stop" /\ pci' = 0
    /\ ret' = [op |-> "stop", val |-> "none"]
    /\ UNCHANGED <<tmVars, spVars, plVars, arg, h>>

\* Player::stop, Channel::reset() of channel pci: Sampler::reset up to its wait
StopOff ==
    /\ pc = "stop_off"
    /\ sampler' = [sampler EXCEPT ![pci] = SamplerDeactivate(@)]
    /\ pc' = "stop_init"
    /\ UNCHANGED <<tmVars, plVars, pcop, pci, arg, obVars>>

\* Player::stop, Channel::reset() of channel pci: Sampler::init and Channel::init
StopInit ==
    /\ pc = "stop_init"
    /\ sampler' = [sampler EXCEPT ![pci] = SamplerInit(@)]
    /\ channel' = [channel EXCEPT ![pci] = ChannelInit(@)]
    /\ pc' = IF pci + 1 < NUM_CHANNELS THEN "stop_off" ELSE "stop_flag"
    /\ pci' = NextChannel(pci)
    /\ UNCHANGED <<tmVars, player, m_playing, out, samples, song, pcop, arg, obVars>>

\* Player::stop: m_playing = false, and stop() returns; called by update(),
\* update() returns TICK
StopFlag ==
    /\ pc = "stop_flag"
    /\ m_playing' = FALSE
    /\ pc' = "idle" /\ pcop' = "none"
    /\ ret' = [op |-> pcop, val |-> IF pcop = "update" THEN "TICK" ELSE "none"]
    /\ h' = [h EXCEPT !.stopped = TRUE,
                      !.ticks = IF pcop = "update" THEN @ + 1 ELSE @,
                      !.ends = IF @ < 2 THEN @ + 1 ELSE @]
    /\ UNCHANGED <<tmVars, spVars, channel, player, out, samples, song, pci, arg>>

\* Player::tick(): the four fetch_sample() calls, the mixer, Timer::clock()
TickBody ==
    IF ~m_playing THEN UNCHANGED <<timer, sampler, out>>
    ELSE \E b0 \in ReadableBytes(song, SamplerReadAddr(sampler[0])),
            b1 \in ReadableBytes(song, SamplerReadAddr(sampler[1])),
            b2 \in ReadableBytes(song, SamplerReadAddr(sampler[2])),
            b3 \in ReadableBytes(song, SamplerReadAddr(sampler[3])) :
            LET bytes == <<b0, b1, b2, b3>>
                smp == [i \in Channels |-> SamplerFetchSample(sampler[i], bytes[i + 1])]
            IN  /\ sampler' = smp
                /\ out' = Mix(smp)
                /\ timer' = TimerClock(timer)

\* Player::tick() called by the host between two update() calls
Tick ==
    /\ pc = "idle"
    /\ TickBody
    /\ ret' = [op |-> "tick", val |-> "none"]
    /\ h' = [h EXCEPT !.clocks = @ + 1]
    /\ UNCHANGED <<channel, player, m_playing, samples, song, fgVars>>

\* The host loop: while (update() != INACTIVE) { tick(); }
UpdateTurn == ~(ret.op = "update" /\ ret.val # "INACTIVE")
TickTurn == ret.op = "update" /\ ret.val # "INACTIVE"

(***************************************************************************)
(* Songs.  A cell is written from its fields as format::Cell lays them out.*)
(***************************************************************************)
MakeCell(sample, period, effect, param) ==
    << (sample \div 16) * 16 + (period \div 256), period % 256,
       (sample % 16) * 16 + effect, param >>

\* Two looped samples of four bytes: sample 1 holds 128 (-128), sample 2 holds 127
TwoSamples ==
    << [length |-> 2, finetune |-> 0, volume |-> 64, loop_start |-> 0, loop_length |-> 2],
       [length |-> 2, finetune |-> 0, volume |-> 64, loop_start |-> 0, loop_length |-> 2] >>
TwoSamplesData == <<128, 128, 128, 128, 127, 127, 127, 127>>

\* Orders 0, 0.  Row 0: F01, D63 and FFF; row 63 is empty, so that the second
\* order ends with a row that carries no jump.
SongTerminal ==
    [tag_ok |-> TRUE, size |-> 2116, length |-> 2, orders |-> <<0, 0>>,
     headers |-> TwoSamples,
     cells |-> (<<0, 0, 0>> :> MakeCell(1, 428, 15, 1)) @@
               (<<0, 0, 1>> :> MakeCell(0, 0, 13, 99)) @@
               (<<0, 0, 2>> :> MakeCell(2, 428, 0, 0)) @@
               (<<0, 0, 3>> :> MakeCell(0, 0, 15, 255)),
     pcm |-> TwoSamplesData]

\* Row 0: F01 and FFF; row 1: F80 in the cells of channels 0 and 1
SongTwoTempos ==
    [tag_ok |-> TRUE, size |-> 2116, length |-> 1, orders |-> <<0>>,
     headers |-> TwoSamples,
     cells |-> (<<0, 0, 0>> :> MakeCell(1, 428, 15, 1)) @@
               (<<0, 0, 3>> :> MakeCell(0, 0, 15, 255)) @@
               (<<0, 1, 0>> :> MakeCell(0, 0, 15, 128)) @@
               (<<0, 1, 1>> :> MakeCell(0, 0, 15, 128)),
     pcm |-> TwoSamplesData]

\* Row 0: sample 1 on channels 0 and 3, sample 2 on channels 1 and 2, with C50
\* (volume 80), AF0 (volume slide up), 78F (tremolo) and FFF
SongLoud ==
    [tag_ok |-> TRUE, size |-> 2116, length |-> 1, orders |-> <<0>>,
     headers |-> TwoSamples,
     cells |-> (<<0, 0, 0>> :> MakeCell(1, 428, 12, 80)) @@
               (<<0, 0, 1>> :> MakeCell(2, 428, 10, 240)) @@
               (<<0, 0, 2>> :> MakeCell(2, 428, 7, 143)) @@
               (<<0, 0, 3>> :> MakeCell(1, 428, 15, 255)),
     pcm |-> TwoSamplesData]

(***************************************************************************)
(* The hosted program: one thread calls update() and tick() in turn.       *)
(***************************************************************************)
HostedSongs == {SongTerminal, SongTwoTempos, SongLoud}
MaxHostedLoads == 2
MaxTicks == 3

\* load() of the first song, or of the next one once playback has ended
HLoad(sg) ==
    /\ h.loads < MaxHostedLoads
    /\ ~m_playing
    /\ Load(sg)

\* set_mode() after load()
HSetMode(mode) ==
    /\ ret = [op |-> "load", val |-> "TRUE"]
    /\ SetMode(mode)

HUpdate ==
    /\ UpdateTurn
    /\ h.ticks < MaxTicks
    /\ Update

HTick ==
    /\ TickTurn
    /\ Tick

HostedNext ==
    \/ \E sg \in HostedSongs : HLoad(sg)
    \/ \E mode \in Modes : HSetMode(mode)
    \/ HUpdate
    \/ HTick
    \/ FetchCell
    \/ SetPeriodWait
    \/ SetPeriodStage
    \/ CellSetPeriodFlag
    \/ LoadEnd
    \/ ChannelTickStep
    \/ StopOff
    \/ StopInit
    \/ StopFlag

SpecHosted == PlayerInit /\ [][HostedNext]_vars

\* C1: in PLAY_SONG_ONCE mode, the update() call that processes the end of the
\* last row of the last order, when that row carries no jump, returns TICK and
\* leaves the player stopped, and every update() call after it returns INACTIVE
\* until the next load().
C1_TerminalReturnsTick ==
    (h.terminal /\ pcop = "update" /\ pc # "idle" /\ pc' = "idle")
        => (ret' = [op |-> "update", val |-> "TICK"] /\ ~m_playing')
C1_ThenInactive ==
    (h.terminal /\ Update) => ret'.val = "INACTIVE"
C1_PlayOnceEnds ==
    [][C1_TerminalReturnsTick /\ C1_ThenInactive]_vars

\* C1 witness: update() has returned INACTIVE after the terminal row of a
\* PLAY_SONG_ONCE song was processed.
C1_Witness ==
    /\ h.terminal /\ pc = "idle"
    /\ ret = [op |-> "update", val |-> "INACTIVE"]
    /\ player.mode = "PLAY_SONG_ONCE"

\* C2: update() is non-blocking: it never waits in Timer::set_period for a
\* tick() that the host can only call after update() has returned; in
\* particular not in a row with Fxx, xx > 31, in more than one cell.
C2_UpdateNeverWaits ==
    ~(pcop = "update" /\ pc = "sp_wait" /\ timer.load_new_period)

\* C8: after every tick() while playing, the outputs are twice the sums
\* ch0 + ch3 and ch1 + ch2 of the channel samples, each channel sample lies in
\* [-8192, 8128] and each sum in [-16384, 16256], so that the doubling stays
\* inside a signed 16-bit integer.
C8_MixerRanges ==
    (ret.op = "tick" /\ m_playing) =>
        LET left == sampler[0].sample + sampler[3].sample
            right == sampler[1].sample + sampler[2].sample
        IN  /\ \A i \in Channels : sampler[i].sample \in -8192 .. 8128
            /\ left \in -16384 .. 16256 /\ right \in -16384 .. 16256
            /\ out.left = 2 * left /\ out.right = 2 * right
            /\ out.left \in -32768 .. 32767 /\ out.right \in -32768 .. 32767

\* C8 witness: both outputs at the ends of their range, channels 0 and 3
\* playing -128 and channels 1 and 2 playing 127 at volume 64.
C8_Witness ==
    /\ ret.op = "tick" /\ m_playing
    /\ out.left = -32768 /\ out.right = 32512

(***************************************************************************)
(* load() of good and bad files, before and after a song plays.            *)
(***************************************************************************)
SongBadTag == [SongLoops EXCEPT !.tag_ok = FALSE]
SongTooBig == [SongLoops EXCEPT !.size = MAX_SONG_SIZE + 1]

\* Sample 1: 8 bytes, the last of the file, loop start at byte 10
SongLoopStartOutside ==
    [SongLoops EXCEPT !.size = 2116,
        !.headers = << [length |-> 4, finetune |-> 0, volume |-> 64,
                        loop_start |-> 5, loop_length |-> 3] >>]

\* Sample 1: 8 bytes, the last of the file, loop [4, 12)
SongLoopEndOutside ==
    [SongLoops EXCEPT !.size = 2116,
        !.headers = << [length |-> 4, finetune |-> 0, volume |-> 64,
                        loop_start |-> 2, loop_length |-> 4] >>]

\* Sample 1: 8 bytes, loop [2, 4)
SongShortLoop ==
    [SongLoops EXCEPT !.size = 2116,
        !.headers = << [length |-> 4, finetune |-> 0, volume |-> 64,
                        loop_start |-> 1, loop_length |-> 1] >>]

\* Sample 2 is cut off by the end of the file; finetune and volume out of range
SongCutOff ==
    [SongLoops EXCEPT !.size = 2124,
        !.headers = << [length |-> 6, finetune |-> 200, volume |-> 255,
                        loop_start |-> 0, loop_length |-> 1],
                       [length |-> 6, finetune |-> 16, volume |-> 65,
                        loop_start |-> 0, loop_length |-> 1] >>]

LoadSongs ==
    {SongBadTag, SongTooBig, SongLoopStartOutside, SongLoopEndOutside, SongShortLoop,
     SongCutOff, SongLoops, SongLoopPastEnd, SongLoud}
MaxLoads == 2
MaxLoadClocks == 3
MaxPreempts == 1

LLoad(sg) ==
    /\ h.loads < MaxLoads
    /\ Load(sg)

LUpdate ==
    /\ UpdateTurn
    /\ Update

LTick ==
    /\ TickTurn
    /\ h.clocks < MaxLoadClocks
    /\ Tick

\* Player::stop() in progress
InStop == pc \in {"stop_off", "stop_init", "stop_flag"}

\* Player::tick() from the interrupt, inside stop() or while nothing plays
ITick ==
    /\ h.preempts < MaxPreempts
    /\ IF pc = "idle" THEN ~m_playing ELSE InStop
    /\ TickBody
    /\ h' = [h EXCEPT !.preempts = @ + 1, !.interrupted = @ \/ (InStop /\ m_playing)]
    /\ UNCHANGED <<channel, player, m_playing, samples, song, fgVars, ret>>

LoadNext ==
    \/ \E sg \in LoadSongs : LLoad(sg)
    \/ LUpdate
    \/ LTick
    \/ ITick
    \/ FetchCell
    \/ SetPeriodWait
    \/ SetPeriodStage
    \/ CellSetPeriodFlag
    \/ LoadEnd

SpecLoad == PlayerInit /\ [][LoadNext]_vars

\* C4: whenever load() returns false the player is not playing: m_playing is
\* false, update() returns INACTIVE and tick() changes nothing, whether or not
\* a song was playing before.
C4_NotPlaying == h.failed => ~m_playing
C4_UpdateInactive == (h.failed /\ Update) => ret'.val = "INACTIVE"
C4_TickNoOp == (h.failed /\ ITick) => UNCHANGED <<out, sampler, timer>>
C4_FailedLoadStops ==
    /\ []C4_NotPlaying
    /\ [][C4_UpdateInactive /\ C4_TickNoOp]_vars

\* C4 witness: load() has failed after an earlier load() had started playback
\* and tick() had clocked the Timer, and update() has returned INACTIVE.
C4_Witness ==
    /\ h.failed /\ pc = "idle"
    /\ timer.period = SAMPLES_PER_AMIGA_VBLANK /\ timer.counter < timer.period
    /\ ret = [op |-> "update", val |-> "INACTIVE"]

\* C7: after every successful load() each of the 31 runtime samples satisfies
\* begin <= loop_begin <= loop_end <= end <= buffer_end.
C7_SampleBounds ==
    (ret = [op |-> "load", val |-> "TRUE"]) =>
        \A i \in 1 .. NUM_SAMPLES :
            /\ samples[i].begin <= samples[i].loop_begin
            /\ samples[i].loop_begin <= samples[i].loop_end
            /\ samples[i].loop_end <= samples[i].end
            /\ samples[i].end <= song.size

(***************************************************************************)
(* stop() under the interrupt: tick() may run between any two steps of     *)
(* stop(), and after it.                                                   *)
(***************************************************************************)
ISRSongs == {SongLoud}

ILoad(sg) ==
    /\ h.loads = 0
    /\ Load(sg)

ISRNext ==
    \/ \E sg \in ISRSongs : ILoad(sg)
    \/ HUpdate
    \/ HTick
    \/ ITick
    \/ Stop
    \/ FetchCell
    \/ SetPeriodWait
    \/ SetPeriodStage
    \/ CellSetPeriodFlag
    \/ LoadEnd
    \/ ChannelTickStep
    \/ StopOff
    \/ StopInit
    \/ StopFlag

SpecISR == PlayerInit /\ [][ISRNext]_vars

\* Channel i has been through its Channel::reset() in the stop() in progress
ResetDone(i) ==
    \/ pc = "stop_flag"
    \/ pc \in {"stop_off", "stop_init"} /\ i < pci
    \/ pc = "stop_init" /\ i = pci

\* C3: after stop() returns, m_playing is false and the four Samplers are
\* inactive; every later tick() changes neither the outputs nor a Sampler nor
\* the Timer, and update() returns INACTIVE; a tick() that interrupts stop()
\* advances no Sampler that stop() has already reset.
C3_Stopped ==
    h.stopped => (~m_playing /\ \A i \in Channels : ~sampler[i].active)
C3_TickNoOp ==
    (h.stopped /\ (ITick \/ HTick)) => UNCHANGED <<out, sampler, timer>>
C3_UpdateInactive ==
    (h.stopped /\ Update) => ret'.val = "INACTIVE"
C3_NoAdvanceAfterReset ==
    (ITick /\ InStop) =>
        \A i \in Channels : ResetDone(i) => sampler'[i].phase = sampler[i].phase
C3_StopQuiesces ==
    /\ []C3_Stopped
    /\ [][C3_TickNoOp /\ C3_UpdateInactive /\ C3_NoAdvanceAfterReset]_vars

\* C3 witness: stop() was interrupted by tick() while the Samplers were playing,
\* and update() has returned INACTIVE afterwards.
C3_Witness ==
    /\ h.stopped /\ h.interrupted /\ pc = "idle"
    /\ out.left # 0
    /\ ret = [op |-> "update", val |-> "INACTIVE"]

(***************************************************************************)
(* Sampler::retrig statement by statement, with fetch_sample() of the      *)
(* interrupt able to run between any two statements of the foreground.     *)
(* The foreground's statements take effect in program order.               *)
(***************************************************************************)
MaxHandshakes == 2
HandshakePeriods == {MIN_PERIOD}
HandshakeOffsets == {0, 1}

\* The statements of Sampler::retrig after the first statement of reset():
\* the position `at` names the statement about to run; the result is the
\* Sampler after it and the position of the next statement ("idle": returned).
RetrigStep(s, has_sample, smp, period, sample_offset, volume, at) ==
    LET short == s.loop_end - s.loop_begin < MIN_LOOP_LENGTH
        ph0 == s.phase + sample_offset * 256
    IN  CASE at = "rt_wait" ->      \* while (m_sampling) {}
                 [s |-> s, pc |-> IF s.sampling THEN "rt_wait" ELSE "rt_init"]
          [] at = "rt_init" ->      \* init()
                 [s |-> SamplerInit(s), pc |-> "rt_volume"]
          [] at = "rt_volume" ->    \* set_volume(volume) and the two early returns
                 [s |-> SamplerSetVolume(s, volume),
                  pc |-> IF ~has_sample THEN "idle"
                         ELSE IF smp.begin = smp.end THEN "idle"
                         ELSE "rt_period"]
          [] at = "rt_period" ->    \* m_finetune, internal_set_period(period)
                 [s |-> SamplerInternalSetPeriod([s EXCEPT !.finetune = smp.finetune],
                                                 period),
                  pc |-> "rt_phase"]
          [] at = "rt_phase" ->
                 [s |-> [s EXCEPT !.phase = 0], pc |-> "rt_base"]
          [] at = "rt_base" ->
                 [s |-> [s EXCEPT !.sample_base = smp.begin], pc |-> "rt_end"]
          [] at = "rt_end" ->
                 [s |-> [s EXCEPT !.end = smp.end - s.sample_base],
                  pc |-> "rt_loop_begin"]
          [] at = "rt_loop_begin" ->
                 [s |-> [s EXCEPT !.loop_begin = smp.loop_begin - s.sample_base],
                  pc |-> "rt_loop_end"]
          [] at = "rt_loop_end" ->
                 [s |-> [s EXCEPT !.loop_end = smp.loop_end - s.sample_base],
                  pc |-> "rt_loopless"]
          [] at = "rt_loopless" ->
                 [s |-> IF short
                        THEN [s EXCEPT !.loopless = TRUE, !.loop_end = s.loop_begin + 1]
                        ELSE [s EXCEPT !.loopless = FALSE],
                  pc |-> "rt_offset"]
          [] at = "rt_offset" ->
                 [s |-> IF sample_offset = 0 THEN s
                        ELSE [s EXCEPT !.phase = IF ph0 > s.end THEN s.end ELSE ph0],
                  pc |-> "rt_fix_phase"]
          [] at = "rt_fix_phase" ->
                 [s |-> [s EXCEPT !.phase = @ * 65536], pc |-> "rt_fix_end"]
          [] at = "rt_fix_end" ->
                 [s |-> [s EXCEPT !.end = @ * 65536], pc |-> "rt_fix_loop_begin"]
          [] at = "rt_fix_loop_begin" ->
                 [s |-> [s EXCEPT !.loop_begin = @ * 65536], pc |-> "rt_fix_loop_end"]
          [] at = "rt_fix_loop_end" ->
                 [s |-> [s EXCEPT !.loop_end = @ * 65536], pc |-> "rt_active"]
          [] at = "rt_active" ->    \* m_active = true
                 [s |-> [s EXCEPT !.active = TRUE], pc |-> "idle"]

\* The call of Sampler::retrig and the first statement of reset():
\* if (m_active) { m_active = false; while (m_sampling) {} }
KRetrig(i, period, sample_offset) ==
    /\ pc = "idle"
    /\ h.retrigs < MaxHandshakes
    /\ sampler' = [sampler EXCEPT ![0] = SamplerDeactivate(@)]
    /\ pc' = IF sampler[0].active THEN "rt_wait" ELSE "rt_init"
    /\ arg' = [i |-> i, period |-> period, sample_offset |-> sample_offset,
               was_active |-> sampler[0].active]
    /\ h' = [h EXCEPT !.retrigs = @ + 1, !.fetches = 0, !.wrapped = FALSE]
    /\ ret' = [op |-> "retrig", val |-> "none"]
    /\ UNCHANGED <<timer, channel, player, m_playing, out, samples, song, pcop, pci>>

\* The next statement of the retrig() in progress
KStep ==
    /\ pc # "idle"
    /\ LET r == RetrigStep(sampler[0], arg.i # 0,
                           IF arg.i = 0 THEN ZeroSample ELSE samples[arg.i],
                           arg.period, arg.sample_offset, MAX_VOLUME, pc)
       IN  /\ r.pc # pc
           /\ sampler' = [sampler EXCEPT ![0] = r.s]
           /\ pc' = r.pc
    /\ ret' = [op |-> "retrig", val |-> pc]
    /\ UNCHANGED <<timer, channel, player, m_playing, out, samples, song, pcop, pci,
                   arg, h>>

HandshakeNext ==
    \/ \E i \in 0 .. MaxSamplerSample, period \in HandshakePeriods,
          sample_offset \in HandshakeOffsets : KRetrig(i, period, sample_offset)
    \/ KStep
    \/ SFetchCounted

\* The foreground runs whenever the interrupt handler has returned.
SpecHandshake == SamplerUnitInit /\ [][HandshakeNext]_vars /\ WF_vars(KStep)

\* C11: (a) reset() always terminates: its wait on m_sampling is left.
C11_ResetTerminates == (pc = "rt_wait") ~> (pc = "rt_init")
\* C11: (b) from the statement of reset() that clears m_active until the last
\* statement of retrig(), which sets it, a fetch_sample() of the interrupt
\* leaves the Sampler as it is.
C11_FetchBypassed ==
    [][(pc # "idle" /\ ret'.op = "fetch_sample") => UNCHANGED sampler]_vars
\* C11: the statements of retrig() one by one give what retrig() gives as a whole.
C11_StepsAgree ==
    (pc = "idle" /\ ret.op = "retrig" /\ sampler[0].active) =>
        sampler[0] = SamplerRetrig(ZeroSampler, TRUE, samples[arg.i], arg.period,
                                   arg.sample_offset, MAX_VOLUME)
\* C11: with tick() able to run between any two statements of the foreground
\* and never interrupted itself, Sampler::reset() always terminates, and every
\* fetch_sample() between the clearing of m_active in reset() and the setting
\* of m_active at the end of retrig() is a no-op, so the interrupt never reads
\* a phase, end, loop_begin or loop_end that is written in part.
C11_Handshake ==
    /\ C11_ResetTerminates
    /\ C11_FetchBypassed
    /\ [](pc # "idle" => ~sampler[0].active)

\* C11 witness: the interrupt has run inside a retrig() of a Sampler that was
\* playing, at the point where m_end holds a byte count that is not yet
\* converted to fixed point.
C11_Witness ==
    /\ pc = "rt_fix_end"
    /\ arg.was_active
    /\ ret.op = "fetch_sample"
    /\ sampler[0].end # 0
    /\ sampler[0].end < 65536

(***************************************************************************)
(* Row order: songs that play one row per tracker tick (F01), watched over *)
(* the rows that load() and update() fetch (h.rows).                       *)
(***************************************************************************)
\* Orders 0, 1.  Row 0: F01 and FFF; row 5 of pattern 0: D20 on channel 1;
\* row 21 of pattern 1: D00, a break out of the last order.
SongBreak ==
    [tag_ok |-> TRUE, size |-> 3140, length |-> 2, orders |-> <<0, 1>>,
     headers |-> TwoSamples,
     cells |-> (<<0, 0, 0>> :> MakeCell(1, 428, 15, 1)) @@
               (<<0, 0, 3>> :> MakeCell(0, 0, 15, 255)) @@
               (<<0, 5, 1>> :> MakeCell(0, 0, 13, 32)) @@
               (<<1, 21, 2>> :> MakeCell(0, 0, 13, 0)),
     pcm |-> TwoSamplesData]

\* One pattern.  Row 0: F01 and FFF; E60 on row c[1] and E6x, x = c[3], on row
\* c[2], both on channel 2
SongLoop(c) ==
    [tag_ok |-> TRUE, size |-> 2116, length |-> 1, orders |-> <<0>>,
     headers |-> TwoSamples,
     cells |-> (<<0, 0, 0>> :> MakeCell(1, 428, 15, 1)) @@
               (<<0, 0, 3>> :> MakeCell(0, 0, 15, 255)) @@
               (<<0, c[1], 2>> :> MakeCell(0, 0, 14, 96)) @@
               (<<0, c[2], 2>> :> MakeCell(0, 0, 14, 96 + c[3])),
     pcm |-> TwoSamplesData]
LoopCases == {<<2, 6, 2>>, <<0, 1, 1>>, <<1, 3, 3>>}

\* One pattern.  Row 0: F00 and FFF, at the speed load() sets (6 ticks a row)
SongF00 ==
    [tag_ok |-> TRUE, size |-> 2116, length |-> 1, orders |-> <<0>>,
     headers |-> TwoSamples,
     cells |-> (<<0, 0, 0>> :> MakeCell(1, 428, 15, 0)) @@
               (<<0, 0, 3>> :> MakeCell(0, 0, 15, 255)),
     pcm |-> TwoSamplesData]

\* One pattern.  Row 0: F01 and FFF; row 1: F03; row 2: F00
SongF00Late ==
    [tag_ok |-> TRUE, size |-> 2116, length |-> 1, orders |-> <<0>>,
     headers |-> TwoSamples,
     cells |-> (<<0, 0, 0>> :> MakeCell(1, 428, 15, 1)) @@
               (<<0, 0, 3>> :> MakeCell(0, 0, 15, 255)) @@
               (<<0, 1, 0>> :> MakeCell(0, 0, 15, 3)) @@
               (<<0, 2, 1>> :> MakeCell(2, 428, 15, 0)),
     pcm |-> TwoSamplesData]

\* One pattern, channel 0.  Row 0: note 428 of sample 1 (F03 and FFF on other
\* channels); row 1: note 214 with 320; row 2: note 856 of sample 2 with 501;
\* row 3, channel 1, which has played nothing: note 428 of sample 1 with 300.
SongPorta ==
    [tag_ok |-> TRUE, size |-> 2116, length |-> 1, orders |-> <<0>>,
     headers |-> TwoSamples,
     cells |-> (<<0, 0, 0>> :> MakeCell(1, 428, 0, 0)) @@
               (<<0, 0, 1>> :> MakeCell(0, 0, 15, 3)) @@
               (<<0, 0, 3>> :> MakeCell(0, 0, 15, 255)) @@
               (<<0, 1, 0>> :> MakeCell(0, 214, 3, 32)) @@
               (<<0, 2, 0>> :> MakeCell(2, 856, 5, 1)) @@
               (<<0, 3, 1>> :> MakeCell(1, 428, 3, 0)),
     pcm |-> TwoSamplesData]

\* One pattern.  Row 0: F01 and FFF; row 1: F20; row 2: FFF; row 3: F7D;
\* row 4: FFF; row 5: F1F
SongTempo ==
    [tag_ok |-> TRUE, size |-> 2116, length |-> 1, orders |-> <<0>>,
     headers |-> TwoSamples,
     cells |-> (<<0, 0, 0>> :> MakeCell(1, 428, 15, 1)) @@
               (<<0, 0, 3>> :> MakeCell(0, 0, 15, 255)) @@
               (<<0, 1, 2>> :> MakeCell(0, 0, 15, 32)) @@
               (<<0, 2, 0>> :> MakeCell(0, 0, 15, 255)) @@
               (<<0, 3, 1>> :> MakeCell(2, 428, 15, 125)) @@
               (<<0, 4, 1>> :> MakeCell(0, 0, 15, 255)) @@
               (<<0, 5, 0>> :> MakeCell(0, 0, 15, 31)),
     pcm |-> TwoSamplesData]

\* One empty pattern but for row 0, channel 0: sample 1, period 428 (C-2).
\* Sample 1: one word, the bytes +127 and -128, volume 64, no loop
SongS2 ==
    [tag_ok |-> TRUE, size |-> 2110, length |-> 1, orders |-> <<0>>,
     headers |-> << [length |-> 1, finetune |-> 0, volume |-> 64,
                     loop_start |-> 0, loop_length |-> 1] >>,
     cells |-> (<<0, 0, 0>> :> MakeCell(1, 428, 0, 0)),
     pcm |-> <<127, 128>>]

\* The same song with a sample of two words: +127, -128, +127, -128
SongS2Four ==
    [tag_ok |-> TRUE, size |-> 2112, length |-> 1, orders |-> <<0>>,
     headers |-> << [length |-> 2, finetune |-> 0, volume |-> 64,
                     loop_start |-> 0, loop_length |-> 1] >>,
     cells |-> (<<0, 0, 0>> :> MakeCell(1, 428, 0, 0)),
     pcm |-> <<127, 128, 127, 128>>]

\* One pattern at the speed load() sets.  Row 0: note 428 of sample 1 with 047
\* on channel 0, note 428 of sample 2 on channel 1, note 40 of sample 1 with 047
\* on channel 2, FFF on channel 3; row 1: 047 without a note on channels 0
\* and 1; row 2: note 856 of sample 1 with 047 on channel 0
SongArp ==
    [tag_ok |-> TRUE, size |-> 2116, length |-> 1, orders |-> <<0>>,
     headers |-> TwoSamples,
     cells |-> (<<0, 0, 0>> :> MakeCell(1, 428, 0, 71)) @@
               (<<0, 0, 1>> :> MakeCell(2, 428, 0, 0)) @@
               (<<0, 0, 2>> :> MakeCell(1, 40, 0, 71)) @@
               (<<0, 0, 3>> :> MakeCell(0, 0, 15, 255)) @@
               (<<0, 1, 0>> :> MakeCell(0, 0, 0, 71)) @@
               (<<0, 1, 1>> :> MakeCell(0, 0, 0, 71)) @@
               (<<0, 2, 0>> :> MakeCell(1, 856, 0, 71)),
     pcm |-> TwoSamplesData]

\* Orders 0, 1.  Pattern 0, row 0: F01 and FFF; row 1: B01.  Pattern 1, row 0:
\* Bxx with xx = target, 0 (the first order) or 1 (the order of the row itself)
SongJump(target) ==
    [tag_ok |-> TRUE, size |-> 3140, length |-> 2, orders |-> <<0, 1>>,
     headers |-> TwoSamples,
     cells |-> (<<0, 0, 0>> :> MakeCell(0, 0, 15, 1)) @@
               (<<0, 0, 3>> :> MakeCell(0, 0, 15, 255)) @@
               (<<0, 1, 2>> :> MakeCell(0, 0, 11, 1)) @@
               (<<1, 0, 1>> :> MakeCell(0, 0, 11, target)),
     pcm |-> TwoSamplesData]

\* Orders 0, 3 (four patterns in the file).  Pattern 0, row 0: F01 and FFF;
\* row 1: E61 on channel 0 and D99 on channel 1
SongLoopBreak ==
    [tag_ok |-> TRUE, size |-> 5188, length |-> 2, orders |-> <<0, 3>>,
     headers |-> TwoSamples,
     cells |-> (<<0, 0, 2>> :> MakeCell(0, 0, 15, 1)) @@
               (<<0, 0, 3>> :> MakeCell(0, 0, 15, 255)) @@
               (<<0, 1, 0>> :> MakeCell(0, 0, 14, 97)) @@
               (<<0, 1, 1>> :> MakeCell(0, 0, 13, 153)),
     pcm |-> TwoSamplesData]

\* One pattern at the speed load() sets.  Row 0: notes on channels 0, 1, 2 and
\* FFF; row 1: EC0 alone on channel 0, with a note on channel 1, with a sample
\* number on channel 2; row 2: EC0 with sample number and note on channel 0
SongCut ==
    [tag_ok |-> TRUE, size |-> 2116, length |-> 1, orders |-> <<0>>,
     headers |-> TwoSamples,
     cells |-> (<<0, 0, 0>> :> MakeCell(1, 428, 0, 0)) @@
               (<<0, 0, 1>> :> MakeCell(2, 428, 0, 0)) @@
               (<<0, 0, 2>> :> MakeCell(1, 428, 0, 0)) @@
               (<<0, 0, 3>> :> MakeCell(0, 0, 15, 255)) @@
               (<<0, 1, 0>> :> MakeCell(0, 0, 14, 192)) @@
               (<<0, 1, 1>> :> MakeCell(0, 214, 14, 192)) @@
               (<<0, 1, 2>> :> MakeCell(2, 0, 14, 192)) @@
               (<<0, 2, 0>> :> MakeCell(1, 428, 14, 192)),
     pcm |-> TwoSamplesData]

\* One pattern.  Row 0: F01 and FFF; row 1: E60 on channel 2; row 2: D05;
\* row 5: B00
SongRestart ==
    [tag_ok |-> TRUE, size |-> 2116, length |-> 1, orders |-> <<0>>,
     headers |-> TwoSamples,
     cells |-> (<<0, 0, 0>> :> MakeCell(1, 428, 15, 1)) @@
               (<<0, 0, 3>> :> MakeCell(0, 0, 15, 255)) @@
               (<<0, 1, 2>> :> MakeCell(0, 0, 14, 96)) @@
               (<<0, 2, 1>> :> MakeCell(0, 0, 13, 5)) @@
               (<<0, 5, 0>> :> MakeCell(0, 0, 11, 0)),
     pcm |-> TwoSamplesData]

RowSongs ==
    {SongBreak, SongF00, SongF00Late, SongPorta, SongTempo, SongS2, SongS2Four,
     SongArp, SongJump(0), SongJump(1), SongTerminal, SongLoopBreak, SongCut,
     SongRestart}
        \cup {SongLoop(c) : c \in LoopCases}
MaxRowTicks == 18

\* load() of one song
RLoad(sg) ==
    /\ h.loads = 0
    /\ Load(sg)

RUpdate ==
    /\ UpdateTurn
    /\ h.ticks < MaxRowTicks
    /\ Update

RowsNext ==
    \/ \E sg \in RowSongs : RLoad(sg)
    \/ \E mode \in Modes : HSetMode(mode)
    \/ RUpdate
    \/ HTick
    \/ FetchCell
    \/ SetPeriodWait
    \/ SetPeriodStage
    \/ CellSetPeriodFlag
    \/ LoadEnd
    \/ ChannelTickStep
    \/ StopOff
    \/ StopInit
    \/ StopFlag

SpecRows == PlayerInit /\ [][RowsNext]_vars

\* The effects of the four cells of the row the Player is at
RowEffect(i) == CellEffect(SongCell(song, player.pattern, player.row, i))
RowParam(i) == CellParam(SongCell(song, player.pattern, player.row, i))
\* The row carries Dxy and no other jump (Bxx, E6x); the Dxy of the last
\* channel that carries one is the one that counts
BreakRow ==
    /\ \E i \in Channels : RowEffect(i) = 13
    /\ \A i \in Channels : RowEffect(i) # 11
    /\ \A i \in Channels : ~(RowEffect(i) = 14 /\ hi_nibble(RowParam(i)) = 6)
BreakParam ==
    RowParam(CHOOSE i \in Channels :
                /\ RowEffect(i) = 13
                /\ \A j \in Channels : RowEffect(j) = 13 => j <= i)
BreakTarget == hi_nibble(BreakParam) * 10 + lo_nibble(BreakParam)
\* update() fetches a row in this step
RowFetched == pc = "idle" /\ pc' = "fetch_cell" /\ pcop' = "update"

\* C12 as stated, for every mode: the row fetched after a row with Dxy and no
\* other jump is row x*10+y of the next order.
C12_BreakAnyMode ==
    [][(RowFetched /\ BreakRow) =>
          /\ player'.order = (player.order + 1) % player.order_count
          /\ player'.row = BreakTarget]_vars

\* C12 (amended): in the modes PLAY_SONG_ONCE, LOOP_SONG_ONCE and LOOP_SONG the
\* row fetched after a row with Dxy and no other jump is row x*10+y (decimal)
\* of the next order of the order list; in LOOP_PATTERN it is row x*10+y of
\* the same order.  With D20 on row 5 of the first of two patterns the rows
\* played are 0..5 of order 0 and then 20 onward of order 1.
C12_BreakStep ==
    [][(RowFetched /\ BreakRow) =>
          /\ player'.order = IF player.mode = "LOOP_PATTERN" THEN player.order
                             ELSE (player.order + 1) % player.order_count
          /\ player'.row = BreakTarget]_vars
C12_BreakScenario ==
    (song = SongBreak /\ player.mode # "LOOP_PATTERN") =>
        \A k \in 1 .. Len(h.rows) :
            k <= 8 => h.rows[k] = IF k <= 6 THEN <<0, k - 1>> ELSE <<1, 20 + (k - 7)>>
C12_PatternBreak == C12_BreakStep /\ []C12_BreakScenario

\* C12 witness: the row after D20 on row 5 has been fetched and played, and
\* the one after it fetched.
C12_Witness ==
    /\ song = SongBreak
    /\ player.mode = "PLAY_SONG_ONCE"
    /\ Len(h.rows) = 8
    /\ h.rows[6] = <<0, 5>>
    /\ h.rows[7] = <<1, 20>>
    /\ h.rows[8] = <<1, 21>>

\* C12 counterexample state: in LOOP_PATTERN the row after D20 is row 20 of
\* the same order.
C12_LoopPatternStays ==
    /\ player.mode = "LOOP_PATTERN"
    /\ Len(h.rows) = 7
    /\ h.rows[6] = <<0, 5>>
    /\ h.rows[7] = <<0, 20>>

\* The k-th row played (k = 1: the row load() fetches) of a pattern with E60 on
\* row a and E6x on row b > a: rows 0..b, then x more times rows a..b, then
\* row b + 1 onward
LoopRow(a, b, x, k) ==
    LET n == b - a + 1
    IN  IF k <= b + 1 THEN k - 1
        ELSE IF k <= b + 1 + x * n THEN a + ((k - (b + 2)) % n)
        ELSE b + 1 + (k - (b + 2 + x * n))

\* C13: with E60 on row a and E6x (x > 0) on row b > a of a channel, and no
\* other E6 or jump in the pattern, rows a..b are played x + 1 times in all and
\* then row b + 1 follows; with E60 on row 2 and E62 on row 6 the rows are
\* 0..6, then 2..6 twice, then 7 onward.
C13_PatternLoop ==
    \A c \in LoopCases :
        song = SongLoop(c) =>
            \A k \in 1 .. Len(h.rows) :
                k <= c[2] + 2 + c[3] * (c[2] - c[1] + 1) =>
                    h.rows[k] = <<0, LoopRow(c[1], c[2], c[3], k)>>

\* C13 witness: E60 on row 2, E62 on row 6: row 7 is fetched as the 18th row,
\* after row 6 has been played three times.
C13_Witness ==
    /\ song = SongLoop(<<2, 6, 2>>)
    /\ Len(h.rows) = 18
    /\ h.rows[18] = <<0, 7>>
    /\ h.rows[7] = <<0, 6>> /\ h.rows[12] = <<0, 6>> /\ h.rows[17] = <<0, 6>>
    /\ h.rows[8] = <<0, 2>> /\ h.rows[13] = <<0, 2>>

(***************************************************************************)
(* The build with MOD8_OPTION_STOP_ON_F00_CMD enabled.                     *)
(***************************************************************************)
StopOnF00Init ==
    /\ timer = TimerReset(0)
    /\ sampler = [i \in Channels |-> ZeroSampler]
    /\ channel = [i \in Channels |-> ZeroChannel]
    /\ player = [ZeroPlayer EXCEPT !.stop_on_f00 = TRUE]
    /\ m_playing = FALSE
    /\ out = [left |-> 0, right |-> 0]
    /\ samples = [i \in 1 .. NUM_SAMPLES |-> ZeroSample]
    /\ song = NoSong
    /\ pc = "idle" /\ pcop = "none" /\ pci = 0 /\ arg = 0
    /\ ret = NoRet
    /\ h = PlayerHistory

SpecStopOnF00 == StopOnF00Init /\ [][RowsNext]_vars

\* C14: with the stop-on-F00 option enabled the song ends at once on the first
\* F00: after the row with F00 has been fetched, update() returns TICK exactly
\* once (h.stop_ticks counts the update() calls that find the tick timer fired
\* and ACTION_STOP pending, each of which returns TICK), and then INACTIVE
\* on every call, and on_play_song_end is emitted exactly once.
C14_TickOnce == h.stop_ticks <= 1
C14_InactiveAfterEnd ==
    (h.ends > 0 /\ pc = "idle" /\ ret.op = "update" /\ ret.val # "INACTIVE") =>
        (ret.val = "TICK" /\ ~m_playing)
C14_EndOnce == h.ends <= 1
C14_EndsOnF00 == C14_TickOnce /\ C14_InactiveAfterEnd /\ C14_EndOnce

\* What the code does: the row with F00 is played for its ticks_per_row ticks,
\* the last of them stops the player; on_play_song_end is emitted once and
\* update() returns INACTIVE from then on.
C14_RowPlayedOut ==
    /\ h.stop_ticks <= player.ticks_per_row
    /\ (h.ends > 0 /\ "STOP" \in player.actions) => h.stop_ticks = player.ticks_per_row
    /\ C14_InactiveAfterEnd
    /\ C14_EndOnce
C14_SixTicks ==
    /\ song = SongF00
    /\ h.stop_ticks = 6
    /\ h.ends = 1
    /\ ret = [op |-> "update", val |-> "INACTIVE"]

\* The cell of channel i in the row the Player is at carries a note and 3xx or 5xy
PortaCell(i) ==
    /\ h.rows # <<>>
    /\ LET cell == SongCell(song, player.pattern, player.row, i)
       IN  CellPeriod(cell) # 0 /\ CellEffect(cell) \in {3, 5}
\* fetch_row() has parsed the cell of channel i of the row the Player is at
CellParsed(i) ==
    IF pc = "fetch_cell" THEN pci > i
    ELSE IF pc \in {"sp_wait", "sp_stage", "sp_flag"} THEN pci >= i
    ELSE TRUE
\* The period of the note, as Channel::set_period keeps it
NotePeriod(i) ==
    LET period == CellPeriod(SongCell(song, player.pattern, player.row, i))
    IN  IF period > MAX_PERIOD THEN MAX_PERIOD
        ELSE IF period < MIN_PERIOD THEN MIN_PERIOD ELSE period

\* C15: (a) once its cell is parsed, the channel has no ACTION_RETRIG pending,
\* and the period of the note is the target of the portamento.
C15_NoRetrigPending ==
    \A i \in Channels :
        (PortaCell(i) /\ CellParsed(i)) =>
            /\ "RETRIG" \notin channel[i].ts_actions
            /\ channel[i].re_period_effect = "PORTAMENTO"
            /\ channel[i].in_period = NotePeriod(i)
\* C15: (b) a Channel::tick() of that row does not call Sampler::retrig (the
\* Sampler keeps its sample, its phase and its activity), and the period of the
\* channel goes toward the target without passing it.
C15_Glides ==
    [][(pc = "chan_tick" /\ PortaCell(pci)) =>
          LET c == channel[pci]
              s == sampler[pci]
              target == c.in_period
              period == c.st_period
              period1 == channel'[pci].st_period
          IN  /\ sampler'[pci] = [s EXCEPT !.volume = sampler'[pci].volume,
                                          !.cached_period = sampler'[pci].cached_period,
                                          !.cached_finetune = sampler'[pci].cached_finetune,
                                          !.phase_increment = sampler'[pci].phase_increment]
              /\ channel'[pci].in_period = target
              /\ period >= target => (target <= period1 /\ period1 <= period)
              /\ period <= target => (period <= period1 /\ period1 <= target)
              /\ (c.rs_tick_counter # 0 /\ period # target /\ c.in_portamento_slide # 0)
                    => period1 # period]_vars
\* C15: a cell with a non-zero period and effect 3xx or 5xy leaves no RETRIG
\* action pending after fetch_row(): during that row Sampler::retrig is never
\* called for the channel, the period of the note only becomes the target of
\* the portamento, and the current period glides toward it.
C15_Portamento == []C15_NoRetrigPending /\ C15_Glides

\* C15 witness: in the row with note 856 and 501 the period of channel 0 has
\* come from 364 to 428 in two ticks, on its way up to 856.
C15_Witness ==
    /\ song = SongPorta
    /\ player.row = 2
    /\ pc = "idle"
    /\ channel[0].in_period = 856
    /\ channel[0].st_period = 428
    /\ channel[0].rs_tick_counter = 3
    /\ channel[0].st_sample = 2

(***************************************************************************)
(* One Channel on its own: the row-level calls that touch the volume, in   *)
(* any order, and Channel::tick().                                         *)
(***************************************************************************)
MaxVolumeTicks == 2
VolumeArgs == {0, 32, 255}
VolumeNibbles == {0, 8}
TremoloDepths == {15}

VolumeInit ==
    /\ song = SongLoops
    /\ SamplerUnitInit

\* A row-level call of channel 0 that leaves the Channel as c1
VRowCall(c1) ==
    /\ channel' = [channel EXCEPT ![0] = c1]
    /\ ret' = [op |-> "row", val |-> "none"]
    /\ UNCHANGED <<timer, sampler, player, m_playing, out, samples, song, fgVars, h>>

\* Channel::tick() of channel 0
VTick ==
    /\ channel[0].rs_tick_counter < MaxVolumeTicks
    /\ LET r == ChannelTick(channel[0], sampler[0], samples)
       IN  /\ channel' = [channel EXCEPT ![0] = r.c]
           /\ sampler' = [sampler EXCEPT ![0] = r.s]
    /\ ret' = [op |-> "tick", val |-> "none"]
    /\ UNCHANGED <<timer, player, m_playing, out, samples, song, pc, pcop, pci, arg, h>>

VolumeNext ==
    \/ VRowCall(ChannelResetRow(channel[0]))
    \/ VRowCall(ChannelSetSample(channel[0], MaxSamplerSample))
    \/ \E v \in VolumeArgs : VRowCall(ChannelSetVolume(channel[0], samples, v))
    \/ \E d \in VolumeArgs : VRowCall(IncVolume(channel[0], samples, d))
    \/ \E d \in VolumeArgs : VRowCall(DecVolume(channel[0], samples, d))
    \/ \E d \in VolumeNibbles : VRowCall(UseVolumeInc(channel[0], d))
    \/ \E d \in VolumeNibbles : VRowCall(UseVolumeDec(channel[0], d))
    \/ \E depth \in TremoloDepths : VRowCall(UseVolumeTremolo(channel[0], 8, depth))
    \/ VRowCall(UseNoteCut(channel[0], 0))
    \/ VTick

SpecVolume == VolumeInit /\ [][VolumeNext]_vars

\* C16: for any sequence of row-level calls (set_sample, set_volume(v),
\* inc_volume(d), dec_volume(d) with v, d in [0, 255], volume slides with
\* nibble parameters, tremolo, note cut) and Channel::tick() calls, the stored
\* volume (m_state.volume), the volume of the tick (m_tick_state.volume) and
\* the volume handed to the Sampler are in [0, MAX_VOLUME].
C16_VolumeRange ==
    /\ channel[0].st_volume \in 0 .. MAX_VOLUME
    /\ channel[0].ts_volume \in 0 .. MAX_VOLUME
    /\ sampler[0].volume \in 0 .. MAX_VOLUME

\* C16 witness: a tremolo tick has handed MAX_VOLUME to the Sampler for a
\* stored volume below it, the sum being cut off at MAX_VOLUME.
C16_Witness ==
    /\ ret.op = "tick"
    /\ channel[0].re_volume_effect = "TREMOLO"
    /\ channel[0].st_volume = 40
    /\ channel[0].in_tremolo_depth = 15
    /\ channel[0].st_tremolo_pos = 16
    /\ sampler[0].volume = MAX_VOLUME

(***************************************************************************)
(* The phase increment over all finetunes and periods: a retrig() at       *)
(* MIN_PERIOD with a sample of any finetune, then set_period() one period  *)
(* up at a time.                                                           *)
(***************************************************************************)
\* Sampler::internal_set_period: the phase increment for a finetune and a period
PhaseIncrement(f, p) == U16(SPEED_TABLE[f + 1] \div p) * 4

\* Sampler::retrig at MIN_PERIOD with a sample of 8 bytes and of finetune f
PRetrig(f) ==
    /\ ~sampler[0].active
    /\ sampler' = [sampler EXCEPT ![0] =
            SamplerRetrig(@, TRUE, [ZeroSample EXCEPT !.end = 8, !.finetune = f],
                          MIN_PERIOD, 0, MAX_VOLUME)]
    /\ ret' = [op |-> "retrig", val |-> "none"]
    /\ UNCHANGED <<timer, channel, player, m_playing, out, samples, song, fgVars, h>>

\* Sampler::set_period with the next period
PSetPeriod ==
    /\ sampler[0].active
    /\ sampler[0].cached_period < MAX_PERIOD
    /\ sampler' = [sampler EXCEPT ![0] = SamplerSetPeriod(@, sampler[0].cached_period + 1)]
    /\ ret' = [op |-> "set_period", val |-> "none"]
    /\ UNCHANGED <<timer, channel, player, m_playing, out, samples, song, fgVars, h>>

SpeedNext ==
    \/ \E f \in 0 .. MAX_FINETUNE : PRetrig(f)
    \/ PSetPeriod

SpecSpeed == VolumeInit /\ [][SpeedNext]_vars

\* C17: (a) for every finetune the phase increment is strictly decreasing in
\* the period over [MIN_PERIOD, MAX_PERIOD].
C17_Decreasing ==
    [][PSetPeriod => sampler'[0].phase_increment < sampler[0].phase_increment]_vars
\* C17: (b) at every period the increment of finetune 0 is above that of
\* finetune 8 (-8).
C17_FinetuneOrder ==
    (sampler[0].active /\ sampler[0].finetune = 0) =>
        sampler[0].phase_increment > PhaseIncrement(8, sampler[0].cached_period)
\* C17: for every finetune f in [0, 15] and all periods p in [MIN_PERIOD,
\* MAX_PERIOD] the phase increment ((SPEED_TABLE[f] / p) truncated to 16
\* bits) << 2 is strictly decreasing in p, and at every p the increment of
\* finetune 0 is above the increment of finetune 8.
C17_SpeedMonotone == C17_Decreasing /\ []C17_FinetuneOrder

\* What holds: where the quotient fits 16 bits (every finetune from period 30
\* on) the increment never grows with the period, and finetune 0 stays above
\* finetune 8; at MIN_PERIOD the quotient of finetune 0 (66414) does not fit.
SpeedFits(f, p) == SPEED_TABLE[f + 1] \div p < 65536
C17_NeverGrowsWhereFits ==
    [][(PSetPeriod /\ SpeedFits(sampler[0].finetune, sampler[0].cached_period))
          => sampler'[0].phase_increment <= sampler[0].phase_increment]_vars
C17_OrderWhereFits ==
    (sampler[0].active /\ SpeedFits(0, sampler[0].cached_period)) => C17_FinetuneOrder
C17_FitsFrom30 ==
    (sampler[0].active /\ sampler[0].cached_period >= 30)
        => SpeedFits(sampler[0].finetune, sampler[0].cached_period)
\* Truncation of the quotient alone: periods 3423 and 3424 of finetune 0 have
\* the same increment.
C17_Plateau ==
    /\ sampler[0].active
    /\ sampler[0].finetune = 0
    /\ sampler[0].cached_period = MAX_PERIOD
    /\ sampler[0].phase_increment = PhaseIncrement(0, MAX_PERIOD - 1)
C17_Wrapped ==
    /\ sampler[0].active
    /\ sampler[0].finetune = 0
    /\ sampler[0].cached_period = MIN_PERIOD
    /\ sampler[0].phase_increment = 878 * 4
    /\ PhaseIncrement(8, MIN_PERIOD) = 62684 * 4
    /\ PhaseIncrement(0, MIN_PERIOD + 1) = 64123 * 4

\* C18: (a) fetch_row() on a cell with Fxx: xx in [1, 31] sets ticks_per_row
\* to xx and leaves the Timer alone; xx > 31 leaves ticks_per_row alone and
\* calls Timer::set_period with floor(5 * SAMPLING_FREQ / (2 * xx)), which
\* fits 16 bits.
C18_Dispatch ==
    [][(pc = "fetch_cell"
        /\ CellEffect(SongCell(song, player.pattern, player.row, pci)) = 15) =>
          LET xx == CellParam(SongCell(song, player.pattern, player.row, pci))
          IN  /\ (xx >= 1 /\ xx <= 31) =>
                    /\ player'.ticks_per_row = xx
                    /\ timer' = timer
                    /\ pc' # "sp_wait"
              /\ xx > 31 =>
                    /\ player'.ticks_per_row = player.ticks_per_row
                    /\ pc' = "sp_wait"
                    /\ arg' = (5 * SAMPLING_FREQ) \div (2 * xx)
                    /\ arg' < 65536]_vars
\* C18: (b) the period is staged (m_new_period), not installed.
C18_Staged ==
    [][(pc = "sp_stage" /\ pcop \in {"load", "update"}) =>
          /\ timer'.new_period = arg
          /\ timer'.period = timer.period
          /\ timer'.counter = timer.counter]_vars
\* C18: (c) once load() has returned true, ticks_per_row is in [1, 31].
C18_TicksPerRow ==
    h.rows # <<>> => (player.ticks_per_row >= 1 /\ player.ticks_per_row <= MAX_TICKS_PER_ROW)
\* C18: (d) for every xx in [32, 255] the period the code computes (two
\* divisions, cast to uint16_t) is floor(5 * SAMPLING_FREQ / (2 * xx)).
C18_PeriodFits ==
    \A xx \in (MAX_TICKS_PER_ROW + 1) .. 255 :
        /\ CellTickPeriod(MakeCell(0, 0, 15, xx)) = (5 * SAMPLING_FREQ) \div (2 * xx)
        /\ (5 * SAMPLING_FREQ) \div (2 * xx) < 65536
\* C18: Fxx with xx in [1, 31] sets ticks_per_row := xx and leaves the timer
\* period unchanged; xx > 31 stages the timer period floor(5 * SAMPLING_FREQ /
\* (2 * xx)) (625 for xx = 125), which fits 16 bits, and leaves ticks_per_row
\* unchanged; so ticks_per_row is in [1, 31] in every state after load().
C18_SpeedDispatch ==
    C18_Dispatch /\ C18_Staged /\ [](C18_TicksPerRow /\ C18_PeriodFits)

\* C18 witness: F7D has staged the period 625 while one tick a row (F01) stays.
C18_Witness ==
    /\ song = SongTempo
    /\ player.row = 3
    /\ pc = "idle"
    /\ timer.new_period = 625
    /\ h.last_set = 625
    /\ player.ticks_per_row = 1
\* F1F has been parsed.
C18_Slowest ==
    /\ song = SongTempo
    /\ player.row = 5
    /\ player.ticks_per_row = 31
    /\ timer.period = 306

\* C19: when update() fetches the next row, every channel has been ticked
\* ticks_per_row times on the row that ends (rs_tick_counter, zeroed by
\* reset_row() when the row is parsed, counts the Channel::tick() calls); no song
\* of RowSongs carries a pattern delay.
C19_RowLength ==
    [][RowFetched =>
          \A i \in 0 .. NUM_CHANNELS - 1 :
              channel[i].rs_tick_counter = player.ticks_per_row]_vars
\* C19: the rows fetched by update() last ticks_per_row ticks.
C19_LaterRows ==
    [][(RowFetched /\ Len(h.rows) >= 2) =>
          \A i \in 0 .. NUM_CHANNELS - 1 :
              channel[i].rs_tick_counter = player.ticks_per_row]_vars
\* C19: the row fetched by load() lasts ticks_per_row - 1 ticks.
C19_FirstRow ==
    [][(RowFetched /\ Len(h.rows) = 1) =>
          \A i \in 0 .. NUM_CHANNELS - 1 :
              channel[i].rs_tick_counter = player.ticks_per_row - 1]_vars
\* C19: the tick-0 actions of a row are committed before the next row is parsed:
\* no RETRIG is pending when update() fetches a row.
C19_Tick0Committed ==
    [][RowFetched =>
          \A i \in 0 .. NUM_CHANNELS - 1 : "RETRIG" \notin channel[i].ts_actions]_vars
\* C19: the note of row 0 (F01) of SongTempo is never played: on row 5 the
\* Sampler of channel 0 has not been retrigged.
C19_NoteLost ==
    /\ song = SongTempo
    /\ player.row = 5
    /\ pc = "idle"
    /\ ~sampler[0].active
    /\ sampler[0].phase_increment = 0
    /\ channel[0].in_sample = 1
\* C19 fails: every row, the first one included, lasts ticks_per_row ticks and
\* has its tick-0 actions committed.
C19_EveryRow == C19_RowLength /\ C19_Tick0Committed

\* The left output while the note of scenario S2 sounds: the sample bytes +127
\* and -128 at volume 64, doubled by the mixer
S2Levels == {(127 * 64) * 2, (0 - 128 * 64) * 2}
\* tick() has run since the first tracker tick committed the note of row 0
S2Sounding == h.ticks >= 1 /\ ret.op = "tick"

\* C20 as stated: with sample 1 of two bytes {+127, -128}, volume 64, and the
\* note 428 of sample 1 on row 0, channel 0, the left output takes the non-zero
\* values of 127 * 64 and 128 * 64 scaled by the mixer, and the right output is
\* zero throughout.
C20_S2Sounds ==
    song = SongS2 =>
        /\ out.right = 0
        /\ S2Sounding => out.left \in S2Levels
\* C20: load() keeps a sample only if it is longer than two bytes; the sample of
\* S2 is loaded empty, retrig() leaves the Sampler inactive and both outputs
\* stay zero.
C20_TwoBytesSilent ==
    song = SongS2 =>
        /\ out.left = 0 /\ out.right = 0
        /\ h.rows # <<>> => samples[1].begin = samples[1].end
        /\ ~sampler[0].active
\* C20: with a sample of four bytes the left output is zero until the first
\* tracker tick and takes the values of S2Levels from then on; the right output
\* is zero throughout.
C20_FourBytesSound ==
    song = SongS2Four =>
        /\ out.right = 0
        /\ h.ticks = 0 => out.left = 0
        /\ S2Sounding => out.left \in S2Levels
\* C20 as amended: the two-byte sample of S2 is silent on both outputs; the
\* same scenario with a four-byte sample {+127, -128, +127, -128} gives the
\* left output the non-zero values of 127 * 64 and 128 * 64 scaled by the
\* mixer, and a right output that is zero throughout.
C20_ScenarioS2 == C20_TwoBytesSilent /\ C20_FourBytesSound

\* C20 witness: the four-byte sample sounds its byte -128 on the left output.
C20_Witness ==
    /\ song = SongS2Four
    /\ S2Sounding
    /\ out.left = (0 - 128 * 64) * 2
    /\ out.right = 0
    /\ sampler[0].active
\* The four-byte sample sounds its byte +127.
C20_Positive ==
    /\ song = SongS2Four /\ S2Sounding /\ out.left = (127 * 64) * 2
\* The note of S2 has been committed and tick() has run: the outputs are zero.
C20_SilentReached ==
    /\ song = SongS2
    /\ S2Sounding
    /\ channel[0].in_sample = 1
    /\ channel[0].in_period = 428
    /\ sampler[0].volume = 64
    /\ out.left = 0

(***************************************************************************)
(* Scenario S1: the hosted loop of test/main.cpp on an empty song.         *)
(***************************************************************************)
\* Tag M.K., one order, one empty pattern, 31 sample headers of length 0
SongS1 ==
    [tag_ok |-> TRUE, size |-> 2108, length |-> 1, orders |-> <<0>>,
     headers |-> <<>>, cells |-> <<>>, pcm |-> <<>>]

S1Load ==
    /\ h.loads = 0
    /\ Load(SongS1)

\* while (g_player.update() != INACTIVE) { g_player.tick(); ... }
S1Update ==
    /\ UpdateTurn
    /\ h.loads = 1
    /\ ret # [op |-> "update", val |-> "INACTIVE"]
    /\ Update

S1Next ==
    \/ S1Load
    \/ S1Update
    \/ HTick
    \/ FetchCell
    \/ LoadEnd
    \/ ChannelTickStep
    \/ StopOff
    \/ StopInit
    \/ StopFlag

SpecS1 == PlayerInit /\ [][S1Next]_vars

\* The TICK results of S1: 64 rows of INITIAL_SPEED ticks
S1Ticks == NUM_ROWS * INITIAL_SPEED

\* C21: (a) load() returns true, both outputs are 0 in every state, update()
\* returns TICK at most 64 * 6 times, and INACTIVE only after stop().
C21_Silence ==
    /\ h.loads = 1 => ~h.failed
    /\ ret.op = "load" => ret.val # "FALSE"
    /\ out.left = 0 /\ out.right = 0
    /\ h.ticks <= INITIAL_SPEED * Len(h.rows)
    /\ Len(h.rows) <= NUM_ROWS
    /\ h.ticks <= S1Ticks
    /\ (ret = [op |-> "update", val |-> "INACTIVE"]) =>
            (h.stopped /\ ~m_playing /\ h.ticks = S1Ticks)
\* C21: (b) once stop() has run, update() returns INACTIVE.
C21_InactiveAfter ==
    [][(h.stopped /\ pc = "idle" /\ ret'.op = "update") =>
          ret'.val = "INACTIVE"]_vars
\* C21: in scenario S1 load() returns true, both outputs are 0 after every
\* tick(), update() returns TICK at most 64 * 6 times, and afterwards update()
\* returns INACTIVE.
C21_ScenarioS1 == []C21_Silence /\ C21_InactiveAfter

\* C21 witness: tick() has run after the last TICK result of row 2; the song
\* state is at row 2, and the outputs are 0.
C21_Witness ==
    /\ song = SongS1
    /\ ret.op = "tick"
    /\ m_playing
    /\ h.ticks = 3 * INITIAL_SPEED - 1
    /\ h.rows = << <<0, 0>>, <<0, 1>>, <<0, 2>> >>
    /\ out.left = 0 /\ out.right = 0
\* The end of S1: update() has returned INACTIVE after 64 * 6 TICK results and
\* the rows 0..63.
C21_Finished ==
    /\ ret = [op |-> "update", val |-> "INACTIVE"]
    /\ h.ticks = S1Ticks
    /\ Len(h.rows) = NUM_ROWS
    /\ h.rows[NUM_ROWS] = <<0, NUM_ROWS - 1>>
    /\ h.stopped

\* The row of channel c carries 047
Arp047(c) == c.re_arpeggio_effect = "ARPEGGIO" /\ c.re_arpeggio_params = <<0, 4, 7>>
\* Scenario S3: the period of tick t of a 047 row on the base period p
ArpExpected(p, t) ==
    LET q == CASE t % 3 = 0 -> p
               [] t % 3 = 1 -> (p * 52015) \div 65536
               [] t % 3 = 2 -> (p * 43740) \div 65536
    IN  IF q < MIN_PERIOD THEN MIN_PERIOD ELSE IF q > MAX_PERIOD THEN MAX_PERIOD ELSE q

\* C22 as stated: after every Channel::tick() of a 047 row on a playing
\* Sampler, tick 0 included, the Sampler's period is the one of scenario S3 for
\* the tick, and the stored period of the channel is the base period.
C22_Arpeggio ==
    [][(pc = "chan_tick" /\ Arp047(channel[pci]) /\ sampler'[pci].active) =>
          /\ sampler'[pci].cached_period =
                 ArpExpected(channel'[pci].st_period, channel[pci].rs_tick_counter)
          /\ channel'[pci].st_period =
                 IF "RETRIG" \in channel[pci].ts_actions
                 THEN channel[pci].in_period ELSE channel[pci].st_period]_vars
\* C22: the same on the ticks that hand a period to the Sampler: tick 0 of a row
\* with a note (retrig) and every later tick (set_period).
C22_HandedPeriods ==
    [][(/\ pc = "chan_tick" /\ Arp047(channel[pci]) /\ sampler'[pci].active
        /\ (channel[pci].rs_tick_counter # 0 \/ "RETRIG" \in channel[pci].ts_actions)) =>
          /\ sampler'[pci].cached_period =
                 ArpExpected(channel'[pci].st_period, channel[pci].rs_tick_counter)
          /\ channel'[pci].st_period =
                 IF "RETRIG" \in channel[pci].ts_actions
                 THEN channel[pci].in_period ELSE channel[pci].st_period]_vars
\* C22: tick 0 of a 047 row without a note leaves the Sampler alone.
C22_Tick0Idle ==
    [][(/\ pc = "chan_tick" /\ Arp047(channel[pci])
        /\ channel[pci].rs_tick_counter = 0 /\ "RETRIG" \notin channel[pci].ts_actions) =>
          sampler'[pci] = sampler[pci]]_vars
\* Tick 0 of row 1 of SongArp is over: the Sampler of channel 0 still has the
\* period of the last tick of row 0, 428 raised by four halftones.
C22_Stale ==
    /\ song = SongArp
    /\ player.row = 1
    /\ Arp047(channel[0])
    /\ channel[0].rs_tick_counter = 1
    /\ channel[0].st_period = 428
    /\ sampler[0].active
    /\ sampler[0].cached_period = (428 * 52015) \div 65536
\* The third tick of row 0, channel 2: the period 40 raised by seven halftones
\* is clamped to MIN_PERIOD.
C22_Clamped ==
    /\ song = SongArp
    /\ player.row = 0
    /\ channel[2].rs_tick_counter = 3
    /\ channel[2].st_period = 40
    /\ sampler[2].cached_period = MIN_PERIOD

\* update() ends a row whose only row action is a position jump to an order not
\* after the current one
BackwardJump ==
    /\ pc = "idle" /\ pcop' = "update"
    /\ pc' \in {"fetch_cell", "stop_off"}
    /\ player.actions = {"JUMP_TO_ORDER"}
    /\ player.jump_to_order <= player.order

\* C23: (a) in LOOP_SONG_ONCE a backward jump met with loop_counter = 0 is
\* taken and counted; one met with loop_counter = 1 ends playback.
C23_JumpStep ==
    [][(BackwardJump /\ player.mode = "LOOP_SONG_ONCE") =>
          /\ player.loop_counter \in {0, 1}
          /\ player.loop_counter = 0 =>
                /\ pc' = "fetch_cell"
                /\ player'.order = player.jump_to_order /\ player'.row = 0
                /\ player'.loop_counter = 1
          /\ player.loop_counter = 1 => pc' = "stop_off"]_vars
\* The rows of SongJump(0) and SongJump(1) in LOOP_SONG_ONCE
JumpRows(target) ==
    IF target = 0
    THEN << <<0, 0>>, <<0, 1>>, <<1, 0>>, <<0, 0>>, <<0, 1>>, <<1, 0>> >>
    ELSE << <<0, 0>>, <<0, 1>>, <<1, 0>>, <<1, 0>> >>
\* C23: (b) SongJump in LOOP_SONG_ONCE: the rows up to the first backward jump,
\* the rows from its target up to the second backward jump, and then the end.
C23_OneWrap ==
    \A target \in {0, 1} :
        (song = SongJump(target) /\ player.mode = "LOOP_SONG_ONCE") =>
            /\ Len(h.rows) <= Len(JumpRows(target))
            /\ h.rows = SubSeq(JumpRows(target), 1, Len(h.rows))
            /\ h.stopped => h.rows = JumpRows(target)
            /\ (m_playing /\ pc = "idle") =>
                   player.loop_counter = IF Len(h.rows) > 3 THEN 1 ELSE 0
\* C23: in LOOP_SONG_ONCE a Bxx jump to an order <= the current one is taken
\* while loop_counter has not reached 1 and ends playback once it has: one
\* backward wrap is performed and the second backward jump stops playback.
C23_LoopOnce == C23_JumpStep /\ []C23_OneWrap

\* C23 witness: SongJump(0) has wrapped once and has been stopped by its second
\* backward jump.
C23_Witness ==
    /\ song = SongJump(0)
    /\ player.mode = "LOOP_SONG_ONCE"
    /\ h.stopped /\ ~m_playing
    /\ h.rows = JumpRows(0)
    /\ player.loop_counter = 2
\* The jump to the order of the row itself counts as a backward jump.
C23_SameOrder ==
    /\ song = SongJump(1)
    /\ player.mode = "LOOP_SONG_ONCE"
    /\ h.stopped
    /\ h.rows = JumpRows(1)

\* update() ends the last row of the last order, which carries no jump effect
NaturalEnd ==
    /\ pc = "idle" /\ pcop' = "update"
    /\ pc' \in {"fetch_cell", "stop_off"}
    /\ player.actions = {}
    /\ player.row = NUM_ROWS - 1
    /\ player.order + 1 = player.order_count

\* C24: (a) at the natural end LOOP_SONG fetches order 0, row 0; PLAY_SONG_ONCE
\* and LOOP_SONG_ONCE call stop().
C24_EndStep ==
    [][NaturalEnd =>
          /\ player.mode = "LOOP_SONG" =>
                (pc' = "fetch_cell" /\ player'.order = 0 /\ player'.row = 0)
          /\ player.mode \in {"PLAY_SONG_ONCE", "LOOP_SONG_ONCE"} => pc' = "stop_off"]_vars
\* C24: (b) stop() leaves the Player inactive, and update() then returns INACTIVE.
C24_Inactive ==
    [][(pc = "idle" /\ h.stopped /\ ret'.op = "update") =>
          (~m_playing /\ ret'.val = "INACTIVE" /\ UNCHANGED player)]_vars
\* C24: (c) SongTerminal, which has no position jump, is never stopped in
\* LOOP_SONG; in the two ONCE modes it ends after its two rows.
C24_Exhaustion ==
    song = SongTerminal =>
        /\ player.mode = "LOOP_SONG" => (~h.stopped /\ (ret.op = "update" => m_playing))
        /\ (player.mode \in {"PLAY_SONG_ONCE", "LOOP_SONG_ONCE"} /\ h.stopped) =>
               h.rows = << <<0, 0>>, <<1, NUM_ROWS - 1>> >>
\* C24: when the last row of the last order completes with no jump effect,
\* LOOP_SONG continues at order 0, row 0 and is never ended by the order list;
\* PLAY_SONG_ONCE and LOOP_SONG_ONCE end playback and update() returns INACTIVE.
C24_NaturalEnd == C24_EndStep /\ C24_Inactive /\ []C24_Exhaustion

\* C24 witness: SongTerminal in LOOP_SONG has started over after its last row.
C24_Witness ==
    /\ song = SongTerminal
    /\ player.mode = "LOOP_SONG"
    /\ m_playing /\ pc = "idle"
    /\ Len(h.rows) = 4
    /\ h.rows[3] = <<0, 0>> /\ h.rows[4] = <<1, NUM_ROWS - 1>>
\* SongTerminal in LOOP_SONG_ONCE has ended, and update() has returned INACTIVE.
C24_OnceEnded ==
    /\ song = SongTerminal
    /\ player.mode = "LOOP_SONG_ONCE"
    /\ h.stopped
    /\ player.loop_counter = 0
    /\ ret = [op |-> "update", val |-> "INACTIVE"]

\* The Player is playing between two calls, or fetch_row() is reading a cell
Positioned == (m_playing /\ pc = "idle") \/ pc = "fetch_cell"

\* C25 as stated: while playing, and whenever fetch_row() reads a cell, the
\* current row is in [0, 64) and the current order in [0, order_count),
\* whatever the rows combine.
C25_Position ==
    Positioned =>
        /\ player.row >= 0 /\ player.row < NUM_ROWS
        /\ player.order >= 0 /\ player.order < player.order_count
\* C25: the order is in range in every song of RowSongs.
C25_OrderInRange ==
    Positioned => (player.order >= 0 /\ player.order < player.order_count)
\* C25: the row is in range in every song but the one that combines a taken
\* E6x with a Dxy of 64 or more.
C25_RowInRange ==
    (Positioned /\ song # SongLoopBreak) => (player.row >= 0 /\ player.row < NUM_ROWS)
\* C25: a pattern break to a row of 64 or more on a row without a loop jump ends
\* playback.
C25_BreakChecked ==
    [][(/\ pc = "idle" /\ pcop' = "update" /\ pc' \in {"fetch_cell", "stop_off"}
        /\ "PATTERN_BREAK" \in player.actions
        /\ "JUMP_TO_ROW" \notin player.actions
        /\ player.jump_to_row >= NUM_ROWS) => pc' = "stop_off"]_vars
\* SongLoopBreak plays row 99 of pattern 0: fetch_row() has read the cells of
\* row 35 of the pattern after it.
C25_PastPattern ==
    /\ song = SongLoopBreak
    /\ m_playing /\ pc = "idle"
    /\ player.row = 99
    /\ player.order = 0
    /\ h.rows = << <<0, 0>>, <<0, 1>>, <<0, 99>> >>

\* Channel::tick() is about to run tick 0 of a row whose cell for channel pci
\* carries EC0
CutTick0 ==
    /\ pc = "chan_tick"
    /\ channel[pci].rs_tick_counter = 0
    /\ CellEffect(SongCell(song, player.pattern, player.row, pci)) = 14
    /\ CellParam(SongCell(song, player.pattern, player.row, pci)) = 192
\* The sample number of that cell
CutSample == CellSample(SongCell(song, player.pattern, player.row, pci))
\* Tick 0 leaves the channel and its Sampler at volume 0 with no volume effect
CutDone ==
    /\ sampler'[pci].volume = 0
    /\ channel'[pci].st_volume = 0
    /\ channel'[pci].re_volume_effect = "NONE"

\* C26 as stated: tick 0 of a row with EC0 commits the volume 0 to the Sampler
\* and leaves no volume effect, whatever else the cell carries.
C26_CutAtOnce == [][CutTick0 => CutDone]_vars
\* C26: it does when the cell carries no sample number, with or without a note.
C26_CutWithoutSample == [][(CutTick0 /\ CutSample = 0) => CutDone]_vars
\* C26: with a sample number in the cell, tick 0 commits the volume of that
\* sample instead.
C26_SampleVolumeWins ==
    [][(CutTick0 /\ CutSample # 0) =>
          /\ sampler'[pci].volume = samples[CutSample].volume
          /\ channel'[pci].st_volume = samples[CutSample].volume
          /\ channel'[pci].re_volume_effect = "NONE"]_vars
\* Row 1 of SongCut after tick 0: channels 0 and 1 are cut, channel 2, whose
\* cell carries EC0 and sample 2, plays on at volume 64.
C26_NotCut ==
    /\ song = SongCut
    /\ player.row = 1
    /\ pc = "idle"
    /\ channel[2].rs_tick_counter = 1
    /\ sampler[0].volume = 0 /\ sampler[1].volume = 0
    /\ sampler[2].active /\ sampler[2].volume = 64
    /\ channel[2].st_volume = 64

(***************************************************************************)
(* One Channel on the samples of SongLoops: the cells fetch_row() parses   *)
(* for it, row by row, and the Channel::tick() calls of each row.  arg     *)
(* holds the cell of the current row.                                      *)
(***************************************************************************)
MaxChannelTicks == 3

\* An empty cell; notes with and without sample number and delay; EDF is never
\* reached within a row
NoteCells ==
    {<<0, 0, 0, 0>>, MakeCell(1, 428, 0, 0), MakeCell(2, 214, 14, 208),
     MakeCell(2, 856, 14, 209), MakeCell(0, 428, 14, 210), MakeCell(1, 107, 14, 223)}

ChannelUnitInit ==
    /\ song = SongLoops /\ samples = LoadSamples(SongLoops).samples
    /\ timer = TimerReset(SAMPLES_PER_AMIGA_VBLANK)
    /\ sampler = [i \in Channels |-> ZeroSampler]
    /\ channel = [i \in Channels |-> ZeroChannel]
    /\ player = ZeroPlayer
    /\ m_playing = FALSE
    /\ out = [left |-> 0, right |-> 0]
    /\ pc = "idle" /\ pcop = "none" /\ pci = 0 /\ arg = <<0, 0, 0, 0>>
    /\ ret = NoRet
    /\ h = SamplerHistory

\* Player::fetch_row, the cell of channel 0
CRow(cell) ==
    /\ channel' = [channel EXCEPT ![0] = CellChannel(@, samples, cell)]
    /\ arg' = cell
    /\ ret' = [op |-> "row", val |-> "none"]
    /\ UNCHANGED <<timer, sampler, player, m_playing, out, samples, song, pc, pcop, pci, h>>

\* Channel::tick() of channel 0
CTick ==
    /\ channel[0].rs_tick_counter < MaxChannelTicks
    /\ LET r == ChannelTick(channel[0], sampler[0], samples)
       IN  /\ channel' = [channel EXCEPT ![0] = r.c]
           /\ sampler' = [sampler EXCEPT ![0] = r.s]
    /\ ret' = [op |-> "tick", val |-> "none"]
    /\ UNCHANGED <<timer, player, m_playing, out, samples, song, pc, pcop, pci, arg, h>>

NoteNext ==
    \/ \E cell \in NoteCells : CRow(cell)
    \/ CTick

SpecNote == ChannelUnitInit /\ [][NoteNext]_vars

\* The x of a cell with a note and EDx, 0 otherwise
DelayOf(cell) ==
    IF CellPeriod(cell) # 0 /\ CellEffect(cell) = 14 /\ hi_nibble(CellParam(cell)) = 13
    THEN lo_nibble(CellParam(cell)) ELSE 0
\* The sample and the volume the delayed note starts with
DelaySample == IF CellSample(arg) # 0 THEN CellSample(arg) ELSE channel[0].st_sample
DelayVolume ==
    IF CellSample(arg) # 0 THEN samples[CellSample(arg)].volume ELSE channel[0].st_volume

\* C27: (a) in a row with a note and EDx, x > 0, the ticks before and after
\* tick x leave the Sampler and the sample of the channel alone; tick x loads
\* the sample, if the cell names one, and retriggers the Sampler with the note.
C27_DelayedTrigger ==
    [][(ret'.op = "tick" /\ DelayOf(arg) > 0) =>
          IF channel[0].rs_tick_counter = DelayOf(arg)
          THEN /\ channel'[0].st_sample = DelaySample
               /\ channel'[0].st_period = CellPeriod(arg)
               /\ sampler'[0].volume = DelayVolume
               /\ sampler'[0].phase = 0
               /\ sampler'[0].active = (DelaySample # 0)
               /\ DelaySample # 0 =>
                      /\ sampler'[0].cached_period = CellPeriod(arg)
                      /\ sampler'[0].sample_base = samples[DelaySample].begin
          ELSE /\ sampler'[0] = sampler[0]
               /\ channel'[0].st_sample = channel[0].st_sample
               /\ channel'[0].st_period = channel[0].st_period]_vars
\* C27: (b) the withheld actions are pending on no tick before tick x, and a
\* row parsed after the delay row starts without them.
C27_Withheld ==
    /\ (DelayOf(arg) > 0 /\ channel[0].rs_tick_counter <= DelayOf(arg) /\ ret.op = "row") =>
           (/\ channel[0].ts_actions \cap {"RETRIG", "LOAD_SAMPLE"} = {}
            /\ "RETRIG" \in channel[0].rs_delayed_actions)
    /\ (arg = <<0, 0, 0, 0>>) =>
           (channel[0].rs_delayed_actions = {} /\ channel[0].ts_actions = {})
\* C27: (c) the ticks of an empty row change nothing in the Sampler, also
\* after a delay row whose tick x was not reached.
C27_Discarded ==
    [][(ret'.op = "tick" /\ arg = <<0, 0, 0, 0>>) =>
          (sampler'[0] = sampler[0] /\ channel'[0].st_sample = channel[0].st_sample)]_vars
\* C27: a note with EDx, 0 < x < ticks of the row, is withheld on the ticks
\* 0..x-1 and retriggers the Sampler exactly once in the row, on tick x; if tick
\* x is not reached the note is never triggered and the next row discards it.
C27_NoteDelay == C27_DelayedTrigger /\ []C27_Withheld /\ C27_Discarded

\* C27 witness: the row with note 428 and ED2 has had its three ticks; the
\* Sampler plays the note, triggered on tick 2.
C27_Witness ==
    /\ arg = MakeCell(0, 428, 14, 210)
    /\ ret.op = "tick"
    /\ channel[0].rs_tick_counter = 3
    /\ channel[0].st_period = 428
    /\ channel[0].st_sample = 2
    /\ sampler[0].active /\ sampler[0].cached_period = 428
\* The note 107 with EDF was parsed, its row and the empty row after it have
\* been ticked, and the Sampler has never been triggered.
C27_NeverTriggered ==
    /\ arg = <<0, 0, 0, 0>>
    /\ ret.op = "tick"
    /\ channel[0].rs_tick_counter = MaxChannelTicks
    /\ channel[0].in_period = 107
    /\ channel[0].st_period = 0
    /\ ~sampler[0].active /\ sampler[0].cached_period = 0

\* Notes near the two ends of the period range, and slides 1xx / 2xx with the
\* parameters 0 and 255
SlideCells ==
    {MakeCell(1, 3400, 0, 0), MakeCell(1, 40, 0, 0),
     MakeCell(0, 0, 1, 0), MakeCell(0, 0, 1, 255),
     MakeCell(0, 0, 2, 0), MakeCell(0, 0, 2, 255)}

SlideNext ==
    \/ \E cell \in SlideCells : CRow(cell)
    \/ CTick

SpecSlide == ChannelUnitInit /\ [][SlideNext]_vars

\* A non-zero tick of a row with 1xx (DEC) or 2xx (INC) on a stored period in
\* [MIN_PERIOD, MAX_PERIOD]
SlideTick(effect) ==
    /\ ret'.op = "tick"
    /\ channel[0].rs_tick_counter # 0
    /\ channel[0].re_period_effect = effect
    /\ channel[0].st_period >= MIN_PERIOD /\ channel[0].st_period <= MAX_PERIOD

\* C28 as stated: after a non-zero tick of 1xx or 2xx the stored period is
\* again in [MIN_PERIOD, MAX_PERIOD].
C28_SlideRange ==
    [][(SlideTick("DEC") \/ SlideTick("INC")) =>
          (channel'[0].st_period >= MIN_PERIOD /\ channel'[0].st_period <= MAX_PERIOD)]_vars
\* C28: 1xx keeps the stored period in the range.
C28_DecRange ==
    [][SlideTick("DEC") =>
          /\ channel'[0].st_period >= MIN_PERIOD /\ channel'[0].st_period <= MAX_PERIOD
          /\ channel'[0].st_period =
                 IF channel[0].st_period - channel[0].re_period_param < MIN_PERIOD
                 THEN MIN_PERIOD ELSE channel[0].st_period - channel[0].re_period_param]_vars
\* C28: 2xx adds the parameter to any stored period below MAX_PERIOD without
\* limiting the sum; the Sampler is handed the period limited to MAX_PERIOD.
C28_IncUnlimited ==
    [][SlideTick("INC") =>
          /\ channel'[0].st_period =
                 IF channel[0].st_period < MAX_PERIOD
                 THEN channel[0].st_period + channel[0].re_period_param ELSE MAX_PERIOD
          /\ sampler[0].active =>
                 sampler'[0].cached_period =
                     IF channel'[0].st_period > MAX_PERIOD
                     THEN MAX_PERIOD ELSE channel'[0].st_period]_vars
\* The note 3400 after one tick of 2FF: the stored period is 3655.
C28_Overshoot ==
    /\ arg = MakeCell(0, 0, 2, 255)
    /\ ret.op = "tick"
    /\ channel[0].rs_tick_counter = 2
    /\ channel[0].st_period = 3400 + 255
    /\ sampler[0].active /\ sampler[0].cached_period = MAX_PERIOD

\* Notes, portamento to a higher and to a lower note, 300 (the slide goes on),
\* and 2FF, which gives a channel without any note a stored period
GlideCells ==
    {MakeCell(1, 428, 0, 0), MakeCell(0, 856, 3, 255), MakeCell(0, 113, 3, 255),
     MakeCell(0, 856, 3, 0), MakeCell(0, 0, 3, 0), MakeCell(0, 0, 2, 255)}

GlideNext ==
    \/ \E cell \in GlideCells : CRow(cell)
    \/ CTick

SpecGlide == ChannelUnitInit /\ [][GlideNext]_vars

\* A non-zero tick of a row with 3xx
GlideTick ==
    /\ ret'.op = "tick"
    /\ channel[0].rs_tick_counter # 0
    /\ channel[0].re_period_effect = "PORTAMENTO"

Distance(a, b) == IF a >= b THEN a - b ELSE b - a

\* C29: with a target, a non-zero tick of 3xx takes the stored period toward
\* the target by the slide and not past it: the distance to the target
\* decreases by the slide, or becomes 0 when it was not larger than the slide,
\* so the target is reached after finitely many ticks when the slide is not 0,
\* and a period at the target stays there.
C29_Toward ==
    [][(GlideTick /\ channel[0].in_period # 0) =>
          LET target == channel[0].in_period
              period == channel[0].st_period
              period1 == channel'[0].st_period
              slide == channel[0].in_portamento_slide
          IN  /\ channel'[0].in_period = target
              /\ channel'[0].in_portamento_slide = slide
              /\ period >= target => (target <= period1 /\ period1 <= period)
              /\ period <= target => (period <= period1 /\ period1 <= target)
              /\ Distance(period1, target) =
                     IF Distance(period, target) > slide
                     THEN Distance(period, target) - slide ELSE 0]_vars
\* C29: without a target the stored period is unchanged.
C29_NoTarget ==
    [][(GlideTick /\ channel[0].in_period = 0) =>
          /\ channel'[0].st_period = channel[0].st_period
          /\ channel'[0].in_period = 0]_vars
\* C29: portamento to note.
C29_PortamentoToNote == C29_Toward /\ C29_NoTarget

\* C29 witness: from 428 toward 856 with slide 255, the second tick would pass
\* the target (683 + 255) and the stored period is the target.
C29_Witness ==
    /\ arg = MakeCell(0, 856, 3, 255)
    /\ ret.op = "tick"
    /\ channel[0].rs_tick_counter = 3
    /\ channel[0].in_period = 856
    /\ channel[0].st_period = 856
    /\ channel[0].in_portamento_slide = 255
    /\ sampler[0].active /\ sampler[0].cached_period = 856
\* A channel that never had a note keeps the period 2FF gave it during 300.
C29_Untargeted ==
    /\ arg = MakeCell(0, 0, 3, 0)
    /\ ret.op = "tick"
    /\ channel[0].rs_tick_counter = 3
    /\ channel[0].in_period = 0
    /\ channel[0].st_period # 0
\* The slide 255 going down from 428 toward 113, part of the way
C29_OnTheWay ==
    /\ arg = MakeCell(0, 113, 3, 255)
    /\ ret.op = "tick"
    /\ channel[0].rs_tick_counter = 2
    /\ channel[0].st_period = 428 - 255
\* Without a slide (856 and 300 on a channel that never had 3xx with a
\* parameter) the stored period stays away from the target.
C29_NoSlide ==
    /\ arg = MakeCell(0, 856, 3, 0)
    /\ ret.op = "tick"
    /\ channel[0].rs_tick_counter = 3
    /\ channel[0].in_portamento_slide = 0
    /\ channel[0].in_period = 856
    /\ channel[0].st_period = 428

\* A note, vibrato 4xy at the speeds 1 and 15, and tremolo 7xy at the speed 8
\* (the speeds are 0 on a channel that had no 4xy or 7xy)
OscCells ==
    {MakeCell(1, 428, 0, 0), MakeCell(0, 0, 4, 31), MakeCell(0, 0, 4, 241),
     MakeCell(0, 0, 7, 143)}

OscNext ==
    \/ \E cell \in OscCells : CRow(cell)
    \/ CTick

SpecOsc == ChannelUnitInit /\ [][OscNext]_vars

OscSpeeds == 0 .. 15
OscPositions == (0 - SINE_TABLE_LENGTH) .. (SINE_TABLE_LENGTH - 1)

\* The position one step of the oscillator later, as a residue
OscAdvance(pos, speed) ==
    ((pos + speed + SINE_TABLE_LENGTH) % OSC_PERIOD) - SINE_TABLE_LENGTH

\* The channel after one vibrato / tremolo update at the given speed
VibratoAt(c, speed) ==
    InternalUpdatePeriodEffect([c EXCEPT !.re_period_effect = "VIBRATO",
                                         !.in_vibrato_speed = speed])
TremoloAt(c, speed) ==
    InternalUpdateVolume([c EXCEPT !.re_volume_effect = "TREMOLO",
                                   !.in_tremolo_speed = speed])

\* The position of an oscillator of channel c after one update at speed 1
OscStep(c, osc, pos) ==
    IF osc = "vibrato"
    THEN VibratoAt([c EXCEPT !.st_vibrato_pos = pos], 1).st_vibrato_pos
    ELSE TremoloAt([c EXCEPT !.st_tremolo_pos = pos], 1).st_tremolo_pos
\* The positions of n updates at speed 1 in turn, the starting position first
\* (n updates are half of them, then the rest)
RECURSIVE OscOrbit(_, _, _, _)
OscOrbit(c, osc, pos, n) ==
    IF n = 0 THEN <<pos>>
    ELSE IF n = 1 THEN <<pos, OscStep(c, osc, pos)>>
    ELSE LET first == OscOrbit(c, osc, pos, n \div 2)
         IN  first \o Tail(OscOrbit(c, osc, first[Len(first)], n - (n \div 2)))

\* A non-zero tick of a row with vibrato / with tremolo
VibratoTick ==
    /\ ret'.op = "tick"
    /\ channel[0].rs_tick_counter # 0
    /\ channel[0].re_period_effect = "VIBRATO"
TremoloTick ==
    /\ ret'.op = "tick"
    /\ channel[0].rs_tick_counter # 0
    /\ channel[0].re_volume_effect = "TREMOLO"

\* C30: a vibrato tick and a tremolo tick leave the stored period and the
\* stored volume as they are, set the period / the volume of the tick, and
\* advance the position of their oscillator by the speed within the cycle.
C30_StoredKept ==
    [][(VibratoTick \/ TremoloTick) =>
          /\ channel'[0].st_period = channel[0].st_period
          /\ channel'[0].st_volume = channel[0].st_volume
          /\ VibratoTick =>
                /\ "UPDATE_PERIOD" \in InternalUpdatePeriod(channel[0]).ts_actions
                /\ channel'[0].st_vibrato_pos =
                       OscAdvance(channel[0].st_vibrato_pos, channel[0].in_vibrato_speed)
                /\ channel'[0].st_tremolo_pos = channel[0].st_tremolo_pos
          /\ TremoloTick =>
                /\ channel'[0].st_tremolo_pos =
                       OscAdvance(channel[0].st_tremolo_pos, channel[0].in_tremolo_speed)
                /\ channel'[0].st_vibrato_pos = channel[0].st_vibrato_pos]_vars
\* C30: the positions are in [-32, 31], and from the position of any reachable
\* channel one more update at any speed in [0, 15] is one step of the
\* oscillator, which leaves them there.
C30_PositionRange ==
    /\ channel[0].st_vibrato_pos \in OscPositions
    /\ channel[0].st_tremolo_pos \in OscPositions
    /\ channel[0].in_vibrato_speed \in OscSpeeds
    /\ channel[0].in_tremolo_speed \in OscSpeeds
    /\ \A speed \in OscSpeeds :
          /\ VibratoAt(channel[0], speed).st_vibrato_pos \in OscPositions
          /\ VibratoAt(channel[0], speed).st_vibrato_pos =
                 OscAdvance(channel[0].st_vibrato_pos, speed)
          /\ TremoloAt(channel[0], speed).st_tremolo_pos \in OscPositions
          /\ TremoloAt(channel[0], speed).st_tremolo_pos =
                 OscAdvance(channel[0].st_tremolo_pos, speed)
\* C30: at speed 1 the position is back where it was after OSC_PERIOD updates
\* and not before.
C30_Cycle ==
    \A osc \in {"vibrato", "tremolo"} :
        LET pos == IF osc = "vibrato" THEN channel[0].st_vibrato_pos
                   ELSE channel[0].st_tremolo_pos
            orbit == OscOrbit(channel[0], osc, pos, OSC_PERIOD)
        IN  /\ Len(orbit) = OSC_PERIOD + 1
            /\ orbit[OSC_PERIOD + 1] = pos
            /\ \A n \in 2 .. OSC_PERIOD : orbit[n] # pos
C30_TremoloWrapped ==
    /\ arg = MakeCell(0, 0, 7, 143)
    /\ ret.op = "tick"
    /\ channel[0].in_tremolo_speed = 8
    /\ channel[0].st_tremolo_pos = 0 - 16
    /\ channel[0].st_volume = 64
    /\ channel[0].ts_volume < 64

\* Rows with 3xx, 4xy, 7xy and 9xx, with parameters and without, 4xy with one
\* parameter only, and 5xy and 6xy, which call use_period_portamento(0) and
\* use_period_vibrato(0, 0)
StickyCells ==
    {MakeCell(0, 0, 3, 32), MakeCell(0, 0, 3, 0), MakeCell(0, 0, 5, 1),
     MakeCell(0, 0, 4, 128), MakeCell(0, 0, 4, 3), MakeCell(0, 0, 6, 1),
     MakeCell(0, 0, 7, 133), MakeCell(0, 0, 7, 0),
     MakeCell(0, 0, 9, 2), MakeCell(0, 0, 9, 0)}

StickyNext ==
    \/ \E cell \in StickyCells : CRow(cell)
    \/ CTick

SpecSticky == ChannelUnitInit /\ [][StickyNext]_vars

\* The value a sticky field has after a call with the parameter value
Sticky(old, called, value) == IF called /\ value # 0 THEN value ELSE old

\* C31: a row (reset_row() and the call of its effect) leaves in each sticky
\* field of m_input the non-zero parameter of its call, and otherwise the value
\* the field had.
C31_Rows ==
    [][ret'.op = "row" =>
          LET c == channel[0]
              c1 == channel'[0]
              effect == CellEffect(arg')
              param == CellParam(arg')
          IN  /\ c1.in_portamento_slide = Sticky(c.in_portamento_slide, effect = 3, param)
              /\ c1.in_vibrato_speed = Sticky(c.in_vibrato_speed, effect = 4, hi_nibble(param))
              /\ c1.in_vibrato_depth = Sticky(c.in_vibrato_depth, effect = 4, lo_nibble(param))
              /\ c1.in_tremolo_speed = Sticky(c.in_tremolo_speed, effect = 7, hi_nibble(param))
              /\ c1.in_tremolo_depth = Sticky(c.in_tremolo_depth, effect = 7, lo_nibble(param))
              /\ c1.in_sample_offset = Sticky(c.in_sample_offset, effect = 9, param)
              /\ effect \in {3, 5} => c1.re_period_effect = "PORTAMENTO"
              /\ effect \in {4, 6} => c1.re_period_effect = "VIBRATO"
              /\ effect = 7 => c1.re_volume_effect = "TREMOLO"
              /\ effect = 9 => "USE_SAMPLE_OFFSET" \in c1.ts_actions]_vars
\* C31: Channel::tick() leaves the sticky fields as they are.
C31_Ticks ==
    [][ret'.op = "tick" =>
          /\ channel'[0].in_portamento_slide = channel[0].in_portamento_slide
          /\ channel'[0].in_vibrato_speed = channel[0].in_vibrato_speed
          /\ channel'[0].in_vibrato_depth = channel[0].in_vibrato_depth
          /\ channel'[0].in_tremolo_speed = channel[0].in_tremolo_speed
          /\ channel'[0].in_tremolo_depth = channel[0].in_tremolo_depth
          /\ channel'[0].in_sample_offset = channel[0].in_sample_offset]_vars
\* C31: sticky parameters.
C31_Sticky == C31_Rows /\ C31_Ticks

\* C31 witness: every sticky field holds the parameter of an earlier row, and
\* the row at hand is 900, which the offset 2 has survived.
C31_Witness ==
    /\ arg = MakeCell(0, 0, 9, 0)
    /\ ret.op = "tick"
    /\ channel[0].in_sample_offset = 2
    /\ channel[0].in_portamento_slide = 32
    /\ channel[0].in_vibrato_speed = 8 /\ channel[0].in_vibrato_depth = 3
    /\ channel[0].in_tremolo_speed = 8 /\ channel[0].in_tremolo_depth = 5

(***************************************************************************)
(* The events of playback.  fetch_row() emits on_play_row_begin when it is  *)
(* entered (h.rows), on_play_note of channel pci at the cell of channel    *)
(* pci, and on_play_row_end when its loop is left; fetch_pattern() emits   *)
(* on_play_pattern (h.patterns, with the number of rows begun before it);  *)
(* stop() emits on_play_song_end (h.ends).                                 *)
(***************************************************************************)
\* Player::fetch_row is between on_play_row_begin and on_play_row_end
InFetchRow == pc \in {"fetch_cell", "sp_wait", "sp_stage", "sp_flag"}

\* C32: (a) a row begins at channel 0, with on_play_row_begin of the row the
\* Player is at; its cells are parsed for the channels 0, 1, 2, 3 in turn; the
\* row ends after the cell of the last channel; no other row, pattern or
\* song end event falls between.
C32_RowEvents ==
    [][/\ (~InFetchRow /\ InFetchRow') =>
              /\ pc' = "fetch_cell" /\ pci' = 0
              /\ h'.rows # <<>>
              /\ h'.rows[Len(h'.rows)] = <<player'.order, player'.row>>
              /\ Len(h'.rows) = IF h'.loads = h.loads THEN Len(h.rows) + 1 ELSE 1
       /\ InFetchRow =>
              /\ h'.rows = h.rows /\ h'.patterns = h.patterns /\ h'.ends = h.ends
              /\ pci' # pci => (pc = "fetch_cell" \/ pc = "sp_flag")
              /\ (pci' # pci /\ InFetchRow') => (pci' = pci + 1 /\ pc' = "fetch_cell")
              /\ ~InFetchRow' => (pci = NUM_CHANNELS - 1 /\ pci' = 0)
       /\ h'.rows # h.rows => (~InFetchRow /\ InFetchRow')]_vars
\* C32: (b) on_play_pattern comes first, in load(); each on_play_pattern
\* names the order and the pattern of the row that begins next; a row of
\* another order than the row before has its on_play_pattern, and the row
\* that follows its predecessor in the pattern has none.
C32_PatternEvents ==
    /\ h.rows # <<>> => (h.patterns # <<>> /\ h.patterns[1] = <<0, SongOrder(song, 0), 0>>)
    /\ \A k \in 1 .. Len(h.patterns) :
          LET event == h.patterns[k]
          IN  /\ event[3] < Len(h.rows)
              /\ h.rows[event[3] + 1][1] = event[1]
              /\ event[2] = SongOrder(song, event[1])
              /\ k > 1 => h.patterns[k - 1][3] < event[3]
              /\ event[3] > 0 =>
                     h.rows[event[3] + 1] #
                         <<h.rows[event[3]][1], h.rows[event[3]][2] + 1>>
    /\ \A n \in 1 .. (Len(h.rows) - 1) :
          h.rows[n + 1][1] # h.rows[n][1] =>
              \E k \in 1 .. Len(h.patterns) : h.patterns[k][3] = n
\* C32: (c) on_play_song_end comes when playback ends, and until the next
\* load() no row and no pattern event follows it.
C32_SongEnd ==
    [][/\ (h.ends # 0 /\ h'.loads = h.loads) =>
              (h'.rows = h.rows /\ h'.patterns = h.patterns /\ ~InFetchRow')
       /\ (h'.ends # h.ends /\ h'.loads = h.loads) =>
              (h'.ends = h.ends + 1 /\ ~m_playing' /\ ~InFetchRow)]_vars
\* C32: event ordering.
C32_EventOrder == C32_RowEvents /\ []C32_PatternEvents /\ C32_SongEnd

\* C32 witness: SongBreak has played its rows 0 to 5 of order 0 and the rows
\* 20 and 21 of order 1, with on_play_pattern in load() and before row 20, and
\* has ended.
C32_Witness ==
    /\ song = SongBreak
    /\ h.rows = << <<0, 0>>, <<0, 1>>, <<0, 2>>, <<0, 3>>, <<0, 4>>, <<0, 5>>,
                   <<1, 20>>, <<1, 21>> >>
    /\ h.patterns = << <<0, 0, 0>>, <<1, 1, 6>> >>
    /\ h.ends = 1
    /\ ~m_playing /\ pc = "idle"

(***************************************************************************)
(* Pattern delay: songs with EEx, played by the render loop of main.cpp to *)
(* their end in PLAY_SONG_ONCE.                                            *)
(***************************************************************************)
\* One pattern.  Row 0: F02 and FFF; row 1: EE2; row 3: D00, which ends the song
SongDelay ==
    [tag_ok |-> TRUE, size |-> 2116, length |-> 1, orders |-> <<0>>,
     headers |-> TwoSamples,
     cells |-> (<<0, 0, 0>> :> MakeCell(1, 428, 15, 2)) @@
               (<<0, 0, 3>> :> MakeCell(0, 0, 15, 255)) @@
               (<<0, 1, 1>> :> MakeCell(0, 0, 14, 226)) @@
               (<<0, 3, 2>> :> MakeCell(0, 0, 13, 0)),
     pcm |-> TwoSamplesData]
\* One pattern.  Row 0: F11 (17 ticks a row) and FFF; row 1: EEF and D00
SongDelayLong ==
    [tag_ok |-> TRUE, size |-> 2116, length |-> 1, orders |-> <<0>>,
     headers |-> TwoSamples,
     cells |-> (<<0, 0, 0>> :> MakeCell(1, 428, 15, 17)) @@
               (<<0, 0, 3>> :> MakeCell(0, 0, 15, 255)) @@
               (<<0, 1, 1>> :> MakeCell(0, 0, 14, 239)) @@
               (<<0, 1, 2>> :> MakeCell(0, 0, 13, 0)),
     pcm |-> TwoSamplesData]
DelaySongs == {SongDelay, SongDelayLong}

DelayLoad(sg) ==
    /\ h.loads = 0
    /\ Load(sg)

DelayNext ==
    \/ \E sg \in DelaySongs : DelayLoad(sg)
    \/ S1Update
    \/ HTick
    \/ FetchCell
    \/ SetPeriodWait
    \/ SetPeriodStage
    \/ CellSetPeriodFlag
    \/ LoadEnd
    \/ ChannelTickStep
    \/ StopOff
    \/ StopInit
    \/ StopFlag

SpecDelay == PlayerInit /\ [][DelayNext]_vars

\* The x of the EEx of the row the Player is at (the last channel with EEx
\* counts), 0 without EEx
RowDelay ==
    LET delays == {i \in Channels :
                      LET cell == SongCell(song, player.pattern, player.row, i)
                      IN  CellEffect(cell) = 14 /\ hi_nibble(CellParam(cell)) = 14}
    IN  IF delays = {} THEN 0
        ELSE LET last == CHOOSE i \in delays : \A j \in delays : j <= i
             IN  lo_nibble(CellParam(SongCell(song, player.pattern, player.row, last)))
\* update() ends a row period with a delay left
HeldUpdate ==
    /\ pc = "idle" /\ ret'.op = "update"
    /\ m_playing /\ TimerIsFired(timer)
    /\ U8(player.tick + 1) >= player.ticks_per_row
    /\ player.delay # 0

\* C33: (a) at the end of a row period with a delay left no row is fetched: the
\* delay counter goes down by one and the channels are ticked.
C33_Held ==
    [][HeldUpdate =>
          /\ h'.rows = h.rows
          /\ player'.row = player.row /\ player'.order = player.order
          /\ player'.delay = player.delay - 1
          /\ player'.tick = 0
          /\ pc' = "chan_tick"]_vars
\* C33: (b) when the next row is fetched the delay counter is 0.
C33_After == [][RowFetched => (player.delay = 0 /\ player'.delay = 0)]_vars
\* C33: (c) Channel::tick() counts on through the held periods.
C33_Counting ==
    [][pc = "chan_tick" =>
          channel'[pci].rs_tick_counter = channel[pci].rs_tick_counter + 1]_vars
\* C33: (d) a row with EEx fetched by update() has had (x + 1) * ticks_per_row
\* ticks of every channel when the next row is fetched.
C33_Length ==
    [][(RowFetched /\ Len(h.rows) >= 2) =>
          \A i \in Channels :
              channel[i].rs_tick_counter = player.ticks_per_row * (RowDelay + 1)]_vars
\* C33 as stated: pattern delay.
C33_PatternDelay == C33_Held /\ C33_After /\ C33_Counting /\ C33_Length

\* The ticks of the row the Player is at fit the uint8_t m_row_state.tick_counter
RowFitsCounter == player.ticks_per_row * (RowDelay + 1) <= 255
\* C33: the tick counter counts on as long as it fits, and wraps from 255 to 0.
C33_CountingWraps ==
    [][pc = "chan_tick" =>
          channel'[pci].rs_tick_counter =
              IF channel[pci].rs_tick_counter = 255 THEN 0
              ELSE channel[pci].rs_tick_counter + 1]_vars
\* C33: the statement holds of the rows whose ticks fit the counter.
C33_LengthFits ==
    [][(RowFetched /\ Len(h.rows) >= 2 /\ RowFitsCounter) =>
          \A i \in Channels :
              channel[i].rs_tick_counter = player.ticks_per_row * (RowDelay + 1)]_vars
\* EE2 at 2 ticks a row: after the tick of row 0 the row has been held for 6
\* ticks, and row 2 is parsed and has had its first tick.
C33_HeldRow ==
    /\ song = SongDelay
    /\ h.rows = << <<0, 0>>, <<0, 1>>, <<0, 2>> >>
    /\ h.ticks = 1 + 6 + 1
    /\ pc = "idle"
    /\ player.delay = 0
\* EEF at 17 ticks a row: on tick 256 of the row the counter of channel 0 is
\* back at 0, and the next Channel::tick() is a tick 0 again.
C33_Wrapped ==
    /\ song = SongDelayLong
    /\ h.rows = << <<0, 0>>, <<0, 1>> >>
    /\ player.delay = 0
    /\ pc = "chan_tick" /\ pci = 1
    /\ channel[0].rs_tick_counter = 0
    /\ channel[1].rs_tick_counter = 255

\* C34: when update() has returned TICK, playback_duration is the number of
\* tick() calls since load() times DOWNSAMPLING_FACTOR.
C34_Duration ==
    ret = [op |-> "update", val |-> "TICK"] =>
        player.playback_duration = h.clocks * DOWNSAMPLING_FACTOR

\* C34 witness: SongTempo at row 5, after tracker ticks of 306, 2441 (F20),
\* 306, 625 (F7D) and 306 calls of tick().
C34_Witness ==
    /\ song = SongTempo
    /\ ret = [op |-> "update", val |-> "TICK"]
    /\ h.rows[Len(h.rows)] = <<0, 5>>
    /\ h.clocks = 306 + 2441 + 306 + 625 + 306
    /\ player.playback_duration = h.clocks * DOWNSAMPLING_FACTOR

\* update() calls stop() in this step
UpdateStops == pc = "idle" /\ ret'.op = "update" /\ pc' = "stop_off"

\* C35: (a) in LOOP_PATTERN the order index, and with it the pattern, stays.
C35_OrderKept ==
    [][(player.mode = "LOOP_PATTERN" /\ player'.mode = "LOOP_PATTERN"
            /\ h'.loads = h.loads) =>
          (player'.order = player.order /\ player'.pattern = player.pattern)]_vars
\* C35: (b) at row 64, at a pattern break and at a position jump the pattern
\* is restarted at row 0, or at the row of the Dxy, with m_pattern_state reset.
C35_Restart ==
    [][(RowFetched /\ player.mode = "LOOP_PATTERN" /\ FetchesPattern(player)) =>
          /\ player'.row = IF "PATTERN_BREAK" \in player.actions
                           THEN player.jump_to_row ELSE 0
          /\ player'.row < NUM_ROWS
          /\ player'.pattern_state = [i \in Channels |-> ZeroPatternState]
          /\ h'.patterns = Append(h.patterns, <<player.order, player.pattern, Len(h.rows)>>)]_vars
\* C35: (c) update() ends playback only at F00 or at a Dxy whose row is not
\* in the pattern: not when the orders are exhausted, not at a position jump.
C35_NeverEnds ==
    [][(UpdateStops /\ player.mode = "LOOP_PATTERN") =>
          \/ "STOP" \in player.actions
          \/ /\ "PATTERN_BREAK" \in player.actions
             /\ player.jump_to_row >= NUM_ROWS]_vars
C35_Row64 ==
    /\ song = SongTerminal
    /\ player.mode = "LOOP_PATTERN"
    /\ Len(h.rows) >= 3
    /\ h.rows[2] = <<0, 63>> /\ h.rows[3] = <<0, 0>>
\* Before D05 restarts the pattern the loop start of channel 2 is row 1.
C35_LoopStartSet ==
    /\ song = SongRestart
    /\ player.mode = "LOOP_PATTERN"
    /\ player.row = 2
    /\ pc = "idle"
    /\ player.pattern_state[2].loop_start_row = 1

\* The cell of channel i on the current row is E6x with x > 0 and has scheduled
\* a jump: its loop counter is left non-zero exactly when it does
LoopJumpBy(i) ==
    LET cell == SongCell(song, player.pattern, player.row, i)
    IN  /\ CellEffect(cell) = 14
        /\ hi_nibble(CellParam(cell)) = 6
        /\ lo_nibble(CellParam(cell)) # 0
        /\ player.pattern_state[i].loop_counter # 0
\* A channel after i carries Dxy, or an E6x that schedules a jump, on the
\* current row
LaterOverwrites(i) ==
    \E j \in Channels :
        /\ j > i
        /\ \/ CellEffect(SongCell(song, player.pattern, player.row, j)) = 13
           \/ LoopJumpBy(j)

\* C36 as stated: when E6x on a channel has scheduled a pattern-loop jump, the
\* next row played is that channel's loop_start_row in the same pattern,
\* whatever the other channels of the row carry.
C36_LoopJump ==
    [][RowFetched =>
          \A i \in Channels :
              LoopJumpBy(i) =>
                  /\ player'.row = player.pattern_state[i].loop_start_row
                  /\ player'.pattern = player.pattern
                  /\ player'.order = player.order]_vars
\* C36: the jump goes to the loop start of the channel when no later channel
\* of the row carries Dxy or a jumping E6x.
C36_LastWriter ==
    [][RowFetched =>
          \A i \in Channels :
              (LoopJumpBy(i) /\ ~LaterOverwrites(i)) =>
                  /\ player'.row = player.pattern_state[i].loop_start_row
                  /\ player'.pattern = player.pattern
                  /\ player'.order = player.order]_vars
\* C36: a scheduled jump goes to m_row_actions.jump_to_row in the same pattern,
\* whoever wrote it last.
C36_SharedRow ==
    [][(RowFetched /\ "JUMP_TO_ROW" \in player.actions) =>
          /\ player'.row = player.jump_to_row
          /\ player'.pattern = player.pattern
          /\ player'.order = player.order]_vars
\* The row of SongLoopBreak on which E61 has scheduled the jump to row 0 and D99
\* has overwritten the row with 99.
C36_Overwritten ==
    /\ song = SongLoopBreak
    /\ pc = "idle" /\ m_playing
    /\ player.row = 1
    /\ LoopJumpBy(0)
    /\ player.pattern_state[0].loop_start_row = 0
    /\ player.actions = {"JUMP_TO_ROW", "PATTERN_BREAK"}
    /\ player.jump_to_row = 99
\* The jump of a lone E62 back to the row of its E60.
C36_Alone ==
    /\ song = SongLoop(<<2, 6, 2>>)
    /\ pc = "idle" /\ m_playing
    /\ player.row = 6
    /\ LoopJumpBy(0) \/ LoopJumpBy(1) \/ LoopJumpBy(2) \/ LoopJumpBy(3)
    /\ player.jump_to_row = 2

(***************************************************************************)
(* Termination in PLAY_SONG_ONCE.  The Player is deterministic and the     *)
(* song flow after a row is fetched depends on the order, the row and the  *)
(* pattern-loop states only (h.flows records them beside h.rows): playback *)
(* that comes back to a row with the loop states it had there before goes  *)
(* round for ever, and update() never returns INACTIVE.                    *)
(***************************************************************************)
\* One pattern.  Row 0: F01 and FFF; rows 1 and 2: E61 on channel 0
SongTwoLoops ==
    [tag_ok |-> TRUE, size |-> 2116, length |-> 1, orders |-> <<0>>,
     headers |-> TwoSamples,
     cells |-> (<<0, 0, 2>> :> MakeCell(0, 0, 15, 1)) @@
               (<<0, 0, 3>> :> MakeCell(0, 0, 15, 255)) @@
               (<<0, 1, 0>> :> MakeCell(0, 0, 14, 97)) @@
               (<<0, 2, 0>> :> MakeCell(0, 0, 14, 97)),
     pcm |-> TwoSamplesData]
\* One pattern.  Row 0: F01 and FFF; row 1: E61 on channel 0 and EE1 on
\* channel 1; row 2: D00
SongOneLoop ==
    [tag_ok |-> TRUE, size |-> 2116, length |-> 1, orders |-> <<0>>,
     headers |-> TwoSamples,
     cells |-> (<<0, 0, 2>> :> MakeCell(0, 0, 15, 1)) @@
               (<<0, 0, 3>> :> MakeCell(0, 0, 15, 255)) @@
               (<<0, 1, 0>> :> MakeCell(0, 0, 14, 97)) @@
               (<<0, 1, 1>> :> MakeCell(0, 0, 14, 225)) @@
               (<<0, 2, 2>> :> MakeCell(0, 0, 13, 0)),
     pcm |-> TwoSamplesData]
FlowSongs == {SongTwoLoops, SongOneLoop}

FlowLoad(sg) ==
    /\ h.loads = 0
    /\ Load(sg)

FlowNext ==
    \/ \E sg \in FlowSongs : FlowLoad(sg)
    \/ RUpdate
    \/ HTick
    \/ FetchCell
    \/ SetPeriodWait
    \/ SetPeriodStage
    \/ CellSetPeriodFlag
    \/ LoadEnd
    \/ ChannelTickStep
    \/ StopOff
    \/ StopInit
    \/ StopFlag

SpecFlow == PlayerInit /\ [][FlowNext]_vars

\* The j-th and the k-th row fetched are the same row of the same order with
\* the same pattern-loop states
SameFlow(j, k) == h.rows[j] = h.rows[k] /\ h.flows[j] = h.flows[k]

\* C37 as stated, for PLAY_SONG_ONCE and songs of flow effects only: playback
\* ends, so it never fetches a row with the pattern-loop states it had when it
\* fetched that row before.
C37_Terminates ==
    player.mode = "PLAY_SONG_ONCE" =>
        \A j, k \in 1 .. Len(h.rows) : j < k => ~SameFlow(j, k)
\* C37: with one E6x on a channel playback comes back to no row in the same
\* flow state.
C37_OneLoop ==
    song = SongOneLoop =>
        \A j, k \in 1 .. Len(h.rows) : j < k => ~SameFlow(j, k)
\* C37: in PLAY_SONG_ONCE a row that leaves the pattern steps the order
\* forward or ends playback.
C37_OrderAdvances ==
    [][(/\ pc = "idle" /\ pcop' = "update" /\ pc' \in {"fetch_cell", "stop_off"}
        /\ player.mode = "PLAY_SONG_ONCE"
        /\ FetchesPattern(player)) =>
          \/ pc' = "stop_off"
          \/ player'.order > player.order]_vars
\* SongTwoLoops goes round rows 0, 1, 2: the E61 of row 1 counts down what the
\* E61 of row 2 has set, and the E61 of row 2 finds the counter at 0 each time.
C37_GoesRound ==
    /\ song = SongTwoLoops
    /\ m_playing /\ pc = "idle"
    /\ h.rows = << <<0, 0>>, <<0, 1>>, <<0, 0>>, <<0, 1>>, <<0, 2>>,
                   <<0, 0>>, <<0, 1>>, <<0, 2>>, <<0, 0>>, <<0, 1>>, <<0, 2>>,
                   <<0, 0>> >>
    /\ SameFlow(3, 6) /\ SameFlow(6, 9) /\ SameFlow(9, 12)
    /\ h.flows[3][0].loop_counter = 1
\* SongOneLoop has ended: rows 0, 1, 0, 1, 2 and update() returns INACTIVE.
C37_OneLoopEnds ==
    /\ song = SongOneLoop
    /\ h.rows = << <<0, 0>>, <<0, 1>>, <<0, 0>>, <<0, 1>>, <<0, 2>> >>
    /\ ~m_playing
    /\ ret = [op |-> "update", val |-> "INACTIVE"]

(***************************************************************************)
(* History independence.  The host loads a song, plays some tracker ticks  *)
(* of it and loads a song again while the first one is playing.  The       *)
(* fields that Channel::init and Sampler::init leave as they are are       *)
(* overwritten before they are read: the tick state at the start of        *)
(* Channel::tick, the parameter of a row effect with the effect, the       *)
(* Sampler's volume, pitch, position and sample bounds by retrig.          *)
(***************************************************************************)
ReloadSongs == {SongLoud, SongArp, SongPorta}
MaxReloadTicks == 3

\* load() of the first song
FirstLoad(sg) ==
    /\ h.loads = 0
    /\ Load(sg)

\* load() of the next song in place of tick(), while the first is playing
Reload(sg) ==
    /\ h.loads = 1
    /\ m_playing
    /\ ret = [op |-> "update", val |-> "TICK"]
    /\ Load(sg)

ReloadUpdate ==
    /\ UpdateTurn
    /\ h.ticks < MaxReloadTicks
    /\ Update

ReloadNext ==
    \/ \E sg \in ReloadSongs : FirstLoad(sg)
    \/ \E sg \in ReloadSongs : Reload(sg)
    \/ ReloadUpdate
    \/ HTick
    \/ FetchCell
    \/ SetPeriodWait
    \/ SetPeriodStage
    \/ CellSetPeriodFlag
    \/ LoadEnd
    \/ ChannelTickStep

SpecReload == PlayerInit /\ [][ReloadNext]_vars

\* The fields of a Channel that Channel::init leaves as they are, set to d:
\* m_tick_state.period and .volume, and the parameters of the row effects
\* that are off or that take their parameters from m_input
StaleChannel(c, d) ==
    [c EXCEPT !.ts_period = d, !.ts_volume = d,
              !.re_arpeggio_params = IF c.re_arpeggio_effect = "NONE"
                                     THEN <<d, d, d>> ELSE @,
              !.re_volume_param = IF c.re_volume_effect \in {"INC", "DEC"} THEN @ ELSE d,
              !.re_period_param = IF c.re_period_effect \in {"INC", "DEC"} THEN @ ELSE d,
              !.re_note_param = IF c.re_note_effect = "NONE" THEN d ELSE @]
\* The fields of an inactive Sampler that Sampler::init leaves as they are,
\* set to d
StaleSampler(s, d) ==
    IF s.active THEN s
    ELSE [s EXCEPT !.finetune = d, !.volume = d, !.loopless = (d # 0),
                   !.sample_base = d, !.end = d, !.loop_begin = d, !.loop_end = d,
                   !.phase = d * 65536, !.phase_increment = d]
StaleValues == {3, 11}

\* load() has reset the state and is about to parse the cells of row 0
LoadHasReset == pcop = "load" /\ pc = "fetch_cell" /\ pci = 0

\* C38: (a) whatever was loaded and played before, load() leaves every
\* variable, up to the stale fields, as it leaves it in a Player fresh from
\* init(): the state depends on the song only.
C38_LoadResets ==
    LoadHasReset =>
        /\ player = LoadState(LoadInfo(ZeroPlayer, song), song)
        /\ timer = TimerReset(SAMPLES_PER_AMIGA_VBLANK)
        /\ samples = LoadSamples(song).samples
        /\ out = [left |-> 0, right |-> 0]
        /\ ~m_playing
        /\ \A i \in Channels :
              /\ StaleChannel(channel[i], 0) = ZeroChannel
              /\ StaleSampler(sampler[i], 0) = ZeroSampler
\* C38: (b) fetch_row(), Channel::tick() and fetch_sample() do not read the
\* stale fields: with other values in them they leave the same Channel and
\* the same Sampler, up to the stale fields, and the same m_sample.
C38_StaleUnread ==
    \A i \in Channels : \A d \in StaleValues :
        LET cell == SongCell(song, player.pattern, player.row, i)
            c == channel[i]
            s == sampler[i]
            t == ChannelTick(c, s, samples)
            td == ChannelTick(StaleChannel(c, d), StaleSampler(s, d), samples)
        IN  /\ StaleChannel(CellChannel(StaleChannel(c, d), samples, cell), 0)
                 = StaleChannel(CellChannel(c, samples, cell), 0)
            /\ StaleChannel(td.c, 0) = StaleChannel(t.c, 0)
            /\ StaleSampler(td.s, 0) = StaleSampler(t.s, 0)
            /\ \A byte \in {0, 200} :
                  /\ StaleSampler(SamplerFetchSample(StaleSampler(s, d), byte), 0)
                       = StaleSampler(SamplerFetchSample(s, byte), 0)
                  /\ SamplerGetSample(SamplerFetchSample(StaleSampler(s, d), byte))
                       = SamplerGetSample(SamplerFetchSample(s, byte))
\* Cells with every effect and extended effect, with and without a note
StaleCells ==
    {MakeCell(n[1], n[2], effect, x * 16 + y) :
        n \in {<<0, 0>>, <<1, 428>>}, effect \in 0 .. 15, x \in 0 .. 15, y \in {0, 3}}
\* C38: (c) the same for the cell of any effect in place of the one that
\* fetch_row() is about to parse, and for the first two ticks of its row.
C38_EveryEffect ==
    pc = "fetch_cell" =>
        \A cell \in StaleCells : \A d \in StaleValues :
            LET c == CellChannel(channel[pci], samples, cell)
                cd == CellChannel(StaleChannel(channel[pci], d), samples, cell)
                t == ChannelTick(c, sampler[pci], samples)
                td == ChannelTick(StaleChannel(cd, d), StaleSampler(sampler[pci], d),
                                  samples)
                u == ChannelTick(t.c, t.s, samples)
                ud == ChannelTick(StaleChannel(td.c, d), StaleSampler(td.s, d), samples)
            IN  /\ StaleChannel(cd, 0) = StaleChannel(c, 0)
                /\ StaleChannel(td.c, 0) = StaleChannel(t.c, 0)
                /\ StaleSampler(td.s, 0) = StaleSampler(t.s, 0)
                /\ StaleChannel(ud.c, 0) = StaleChannel(u.c, 0)
                /\ StaleSampler(ud.s, 0) = StaleSampler(u.s, 0)
\* C38: (d) an active Sampler reads its byte inside the song buffer, so that
\* tick() is a function of the state and the song.
C38_ReadsSong ==
    \A i \in Channels :
        sampler[i].active =>
            /\ SamplerReadAddr(sampler[i]) >= 0
            /\ SamplerReadAddr(sampler[i]) < song.size
C38_StaleAtLoad ==
    /\ LoadHasReset
    /\ h.loads = 2
    /\ channel[0].ts_period # 0
    /\ channel[2].ts_volume # 0
    /\ sampler[0].phase # 0
    /\ sampler[0].volume # 0

(***************************************************************************)
(* The period of the Sampler on the row after an arpeggio or a vibrato.    *)
(***************************************************************************)
\* An empty cell, a note, arpeggio 047 and vibrato 48F without a note
PitchCells ==
    {<<0, 0, 0, 0>>, MakeCell(1, 428, 0, 0), MakeCell(0, 0, 0, 71),
     MakeCell(0, 0, 4, 143)}

PitchNext ==
    \/ \E cell \in PitchCells : CRow(cell)
    \/ CTick

SpecPitch == ChannelUnitInit /\ [][PitchNext]_vars

\* The first Channel::tick() of the row of the cell is over
FirstTickOf(cell) ==
    /\ ret.op = "tick"
    /\ arg = cell
    /\ channel[0].rs_tick_counter = 1

\* C39 as stated: after the first tick of a row whose cell has no note and no
\* effect, the period in effect in the Sampler of a playing channel is the
\* stored base period m_state.period, whatever the row before applied.
C39_BasePeriod ==
    (FirstTickOf(<<0, 0, 0, 0>>) /\ sampler[0].active) =>
        sampler[0].cached_period = channel[0].st_period
\* C39: after the first tick of a row with a note the Sampler has the base
\* period.
C39_NoteRestores ==
    (FirstTickOf(MakeCell(1, 428, 0, 0)) /\ sampler[0].active) =>
        /\ sampler[0].cached_period = channel[0].st_period
        /\ channel[0].st_period = 428
\* C39: no tick of an empty row touches the Sampler, and the stored period
\* never carries the offset.
C39_EmptyRowIdle ==
    [][(arg = <<0, 0, 0, 0>> /\ ret'.op = "tick") =>
          (sampler' = sampler /\ channel'[0].st_period = channel[0].st_period)]_vars
\* The first tick of an empty row after a 047 row on the note 428: the Sampler
\* still plays the period of the third tick, seven halftones up.
C39_ArpeggioStays ==
    /\ FirstTickOf(<<0, 0, 0, 0>>)
    /\ sampler[0].active
    /\ channel[0].st_period = 428
    /\ sampler[0].cached_period = (428 * 43740) \div 65536
\* The same after a 48F row: the Sampler is off the base period by the vibrato
\* of the last tick.
C39_VibratoStays ==
    /\ FirstTickOf(<<0, 0, 0, 0>>)
    /\ sampler[0].active
    /\ channel[0].st_period = 428
    /\ channel[0].st_vibrato_pos # 0
    /\ sampler[0].cached_period \notin {428, (428 * 52015) \div 65536,
                                        (428 * 43740) \div 65536}

\* C40 as stated: m_song_state.loop_counter is 0 or 1 in every reachable
\* state, the one in which playback has just ended at a backward position
\* jump included.
C40_LoopCounter == player.loop_counter \in {0, 1}
\* C40: the counter is 0 or 1 while the Player is playing; it is 2 only once
\* the second backward jump of LOOP_SONG_ONCE has ended playback, and never
\* more.
C40_WhilePlaying ==
    /\ player.loop_counter \in {0, 1, 2}
    /\ (m_playing /\ pc = "idle") => player.loop_counter \in {0, 1}
    /\ player.loop_counter = 2 =>
          /\ player.mode = "LOOP_SONG_ONCE"
          /\ pcop \in {"update", "none"}
          /\ pc \in {"stop_off", "stop_init", "stop_flag", "idle"}
\* C40: the backward jump that ends playback in LOOP_SONG_ONCE leaves the
\* counter at 2.
C40_CountedAtEnd ==
    [][(BackwardJump /\ player.mode = "LOOP_SONG_ONCE" /\ player.loop_counter = 1) =>
          (pc' = "stop_off" /\ player'.loop_counter = 2)]_vars
\* update() has ended SongJump(1) at its second jump to its own order and
\* returns INACTIVE: the counter is 2.
C40_Ended ==
    /\ song = SongJump(1)
    /\ player.mode = "LOOP_SONG_ONCE"
    /\ ~m_playing
    /\ ret = [op |-> "update", val |-> "INACTIVE"]
    /\ player.loop_counter = 2

====
